---- MODULE Spec2Model ----
(***************************************************************************)
(* Mini-CRM-Hub: the segment rule evaluator of the backend                 *)
(* (utils/segmentEvaluator), the segment, customer, order, campaign and    *)
(* delivery routes, and the localStorage pages of the frontend             *)
(* (customers, segments, campaigns).                                       *)
(*                                                                         *)
(* Ten specifications share the module:                                    *)
(*   SpecEval  evaluateSegmentRules as a function of a rule and a customer *)
(*             collection;                                                 *)
(*   SpecClock evaluateSegmentRules with the clock advancing while the     *)
(*             conditions are built;                                       *)
(*   Spec      the backend: customers, orders, segment create and preview; *)
(*   SpecPreview  the backend with a larger customer table, for preview;   *)
(*   SpecBatch the segment create and detail routes over a customer table  *)
(*             one row longer than a createMany batch;                     *)
(*   SpecOrders  the order routes and the customer aggregates;             *)
(*   SpecCampaign  campaign creation and the segment reads of two users;   *)
(*   SpecDelivery  the delivery receipt routes;                            *)
(*   SpecFE    the customers and segments pages over localStorage;         *)
(*   SpecCampaignsPage  the campaigns page over localStorage.              *)
(***************************************************************************)
EXTENDS Integers, Sequences, FiniteSets, TLC

VARIABLES
    evCustomers,      \* SpecEval: the customer table the rule is evaluated against
    evRule,           \* SpecEval: the rule given to evaluateSegmentRules
    evNow,            \* SpecEval: the clock (in days) at the call
    evResult,         \* SpecEval: what the call returned or threw ("pending" before)
    evAgainNow,       \* SpecEval: the clock (in days) at the second call
    evAgain,          \* SpecEval: what the second call of the same rule returned or threw
    evWhere,          \* SpecClock: the conditions of the where clause the call built
    customers,        \* backend: the customer table, in creation order
    orders,           \* backend: the order table
    segments,         \* backend: the segment table
    customerSegment,  \* backend: the customerSegment table (segment membership)
    creating,         \* backend: the POST /api/segments request in progress
    response,         \* backend: the last response sent
    beNow,            \* backend: the clock, in days
    lsCustomers,      \* frontend: localStorage "customers"
    lsSegments,       \* frontend: localStorage "segments"
    fePage,           \* frontend: the page that is mounted
    cpCustomers,      \* CustomersPage state: customers
    spSegments,       \* SegmentsPage state: segments
    spCustomers,      \* SegmentsPage state: customers
    spName,           \* SegmentsPage state: name
    spDescription,    \* SegmentsPage state: description
    spRules,          \* SegmentsPage state: rules
    spEditingId,      \* SegmentsPage state: editingId (0 for null)
    spIsCreating,     \* SegmentsPage state: isCreating (the dialog is open)
    feNow,            \* frontend: Date.now()
    ordering,         \* backend: the POST /api/customers/:id/orders requests in progress
    campaigns,        \* backend: the campaign table
    communicationLogs, \* backend: the communicationLog table
    campaigning,      \* backend: the POST /api/campaigns request in progress
    delivering,       \* backend: the POST /api/delivery/batch request in progress
    lsCampaigns,      \* frontend: localStorage "campaigns"
    cgCampaigns,      \* CampaignsPage state: campaigns
    cgName,           \* CampaignsPage state: name
    cgDescription,    \* CampaignsPage state: description
    cgStatus          \* CampaignsPage state: status

evVars == <<evCustomers, evRule, evNow, evResult, evAgainNow, evAgain, evWhere>>

beVars == <<customers, orders, segments, customerSegment, creating, response, beNow>>

lsVars == <<lsCustomers, lsSegments>>

cmVars == <<ordering, campaigns, communicationLogs, campaigning, delivering>>

cgVars == <<lsCampaigns, cgCampaigns, cgName, cgDescription, cgStatus>>

spVars == <<spSegments, spCustomers, spName, spDescription, spRules, spEditingId, spIsCreating>>

feVars == <<lsVars, fePage, cpCustomers, spVars, feNow>>

(***************************************************************************)
(* JSON / JavaScript values.  Every value is a record of one shape so that *)
(* values of different JavaScript types can be compared.  Data strings are *)
(* sequences of one-character strings.                                     *)
(***************************************************************************)
JNum(n) == [t |-> "num", n |-> n, s |-> <<>>]
JStr(s) == [t |-> "str", n |-> 0, s |-> s]
JUndef == [t |-> "undefined", n |-> 0, s |-> <<>>]
JNaN == [t |-> "nan", n |-> 0, s |-> <<>>]
JDate(d) == [t |-> "date", n |-> d, s |-> <<>>]
JInvalidDate == [t |-> "invalid_date", n |-> 0, s |-> <<>>]

Digits == {"0", "1", "2", "3", "4", "5", "6", "7", "8", "9"}

DigitVal(c) ==
    CASE c = "0" -> 0 [] c = "1" -> 1 [] c = "2" -> 2 [] c = "3" -> 3
      [] c = "4" -> 4 [] c = "5" -> 5 [] c = "6" -> 6 [] c = "7" -> 7
      [] c = "8" -> 8 [] c = "9" -> 9

\* The length of the longest prefix of s made of digits.
RECURSIVE DigitPrefixLen(_)
DigitPrefixLen(s) ==
    IF s = <<>> \/ Head(s) \notin Digits THEN 0 ELSE 1 + DigitPrefixLen(Tail(s))

\* The number a sequence of digits denotes.
RECURSIVE DigitsToNat(_)
DigitsToNat(s) ==
    IF s = <<>> THEN 0
    ELSE 10 * DigitsToNat(SubSeq(s, 1, Len(s) - 1)) + DigitVal(s[Len(s)])

\* parseInt / parseFloat of a JSON value: a number is itself, a string is the
\* number its leading digits denote, anything else is NaN.
parseInt(v) ==
    CASE v.t = "num" -> v
      [] v.t = "str" ->
            IF DigitPrefixLen(v.s) = 0 THEN JNaN
            ELSE JNum(DigitsToNat(SubSeq(v.s, 1, DigitPrefixLen(v.s))))
      [] OTHER -> JNaN

parseFloat(v) == parseInt(v)

\* new Date(v): a string must be a date as a whole (here: a day number written
\* in digits), a number is the instant it counts, anything else is invalid.
NewDate(v) ==
    CASE v.t = "num" -> JDate(v.n)
      [] v.t = "str" ->
            IF v.s # <<>> /\ DigitPrefixLen(v.s) = Len(v.s)
            THEN JDate(DigitsToNat(v.s)) ELSE JInvalidDate
      [] OTHER -> JInvalidDate

\* s.split(','): the pieces of s between commas.
RECURSIVE SplitComma(_)
SplitComma(s) ==
    LET RECURSIVE FirstComma(_, _)
        FirstComma(t, i) ==
            IF i > Len(t) THEN 0 ELSE IF t[i] = "," THEN i ELSE FirstComma(t, i + 1)
        k == FirstComma(s, 1)
    IN  IF k = 0 THEN <<s>>
        ELSE <<SubSeq(s, 1, k - 1)>> \o SplitComma(SubSeq(s, k + 1, Len(s)))

(***************************************************************************)
(* Rule nodes.  A leaf is {field, operator, value}; a tree is              *)
(* {type, conditions}.  A property a node lacks reads as undefined.        *)
(***************************************************************************)
Leaf(f, o, v) ==
    [type |-> "undefined", conditions |-> <<>>, field |-> f, operator |-> o, value |-> v]

Tree(ty, cs) ==
    [type |-> ty, conditions |-> cs, field |-> "undefined",
     operator |-> "undefined", value |-> JUndef]

(***************************************************************************)
(* The where clause a condition is built into: a field and the filters on  *)
(* it, or the error that building threw.                                   *)
(***************************************************************************)
Filter(op, arg) == [op |-> op, arg |-> arg]

Built(f, fs) == [ok |-> TRUE, error |-> "", field |-> f, filters |-> fs]

Thrown(e) == [ok |-> FALSE, error |-> e, field |-> "", filters |-> <<>>]

\* buildNumericCondition with gte built as the strict gt.
buildNumericCondition_GteAsGt(field, operator, value) ==
    CASE operator = "gt" -> Built(field, <<Filter("gt", value)>>)
      [] operator = "gte" -> Built(field, <<Filter("gt", value)>>)
      [] operator = "lt" -> Built(field, <<Filter("lt", value)>>)
      [] operator = "lte" -> Built(field, <<Filter("lte", value)>>)
      [] operator = "eq" -> Built(field, <<Filter("equals", value)>>)
      [] OTHER -> Thrown("Unsupported operator")

buildNumericCondition(field, operator, value) ==
    CASE operator = "gt" -> Built(field, <<Filter("gt", value)>>)
      [] operator = "gte" -> Built(field, <<Filter("gte", value)>>)
      [] operator = "lt" -> Built(field, <<Filter("lt", value)>>)
      [] operator = "lte" -> Built(field, <<Filter("lte", value)>>)
      [] operator = "eq" -> Built(field, <<Filter("equals", value)>>)
      [] OTHER -> Thrown("Unsupported operator")

\* buildDateCondition with between built from the strict gt and lt.
buildDateCondition_BetweenExclusive(field, operator, value, now) ==
    LET date == NewDate(value)
    IN  CASE operator = "before" -> Built(field, <<Filter("lt", date)>>)
          [] operator = "after" -> Built(field, <<Filter("gt", date)>>)
          [] operator = "between" ->
                IF value.t # "str" THEN Thrown("TypeError")
                ELSE LET ds == SplitComma(value.s)
                         start == NewDate(JStr(ds[1]))
                         end == IF Len(ds) >= 2 THEN NewDate(JStr(ds[2])) ELSE JUndef
                     IN  Built(field, <<Filter("gt", start), Filter("lt", end)>>)
          [] operator = "daysAgo" ->
                LET n == parseInt(value)
                    daysAgo == IF n.t = "num" THEN JDate(now - n.n) ELSE JInvalidDate
                IN  Built(field, <<Filter("lt", daysAgo)>>)
          [] OTHER -> Thrown("Unsupported operator")

\* now is the clock read by this call (new Date()).
buildDateCondition(field, operator, value, now) ==
    LET date == NewDate(value)
    IN  CASE operator = "before" -> Built(field, <<Filter("lt", date)>>)
          [] operator = "after" -> Built(field, <<Filter("gt", date)>>)
          [] operator = "between" ->
                IF value.t # "str" THEN Thrown("TypeError")
                ELSE LET ds == SplitComma(value.s)
                         start == NewDate(JStr(ds[1]))
                         end == IF Len(ds) >= 2 THEN NewDate(JStr(ds[2])) ELSE JUndef
                     IN  Built(field, <<Filter("gte", start), Filter("lte", end)>>)
          [] operator = "daysAgo" ->
                LET n == parseInt(value)
                    daysAgo == IF n.t = "num" THEN JDate(now - n.n) ELSE JInvalidDate
                IN  Built(field, <<Filter("lt", daysAgo)>>)
          [] OTHER -> Thrown("Unsupported operator")

buildStringCondition(field, operator, value) ==
    CASE operator = "contains" -> Built(field, <<Filter("contains", value)>>)
      [] operator = "startsWith" -> Built(field, <<Filter("startsWith", value)>>)
      [] operator = "endsWith" -> Built(field, <<Filter("endsWith", value)>>)
      [] operator = "equals" -> Built(field, <<Filter("equals", value)>>)
      [] OTHER -> Thrown("Unsupported operator")

\* buildCondition with an empty clause, not an error, for an unknown field.
buildCondition_IgnoreUnknown(condition, now) ==
    CASE condition.field = "totalSpend" ->
            buildNumericCondition("totalSpend", condition.operator, parseFloat(condition.value))
      [] condition.field = "visitCount" ->
            buildNumericCondition("visitCount", condition.operator, parseInt(condition.value))
      [] condition.field = "lastVisit" ->
            buildDateCondition("lastVisit", condition.operator, condition.value, now)
      [] condition.field = "email" ->
            buildStringCondition("email", condition.operator, condition.value)
      [] OTHER -> Built("email", <<>>)

buildCondition(condition, now) ==
    CASE condition.field = "totalSpend" ->
            buildNumericCondition("totalSpend", condition.operator, parseFloat(condition.value))
      [] condition.field = "visitCount" ->
            buildNumericCondition("visitCount", condition.operator, parseInt(condition.value))
      [] condition.field = "lastVisit" ->
            buildDateCondition("lastVisit", condition.operator, condition.value, now)
      [] condition.field = "email" ->
            buildStringCondition("email", condition.operator, condition.value)
      [] OTHER -> Thrown("Unsupported field")

(***************************************************************************)
(* The customer table and the query prisma.customer.findMany runs on it.   *)
(***************************************************************************)
JNull == [t |-> "null", n |-> 0, s |-> <<>>]

Customer(id, email, totalSpend, visitCount, lastVisit) ==
    [id |-> id, email |-> email, totalSpend |-> totalSpend,
     visitCount |-> visitCount, lastVisit |-> lastVisit]

\* The column of a customer row as a value.
FieldValue(c, field) ==
    CASE field = "totalSpend" -> JNum(c.totalSpend)
      [] field = "visitCount" -> JNum(c.visitCount)
      [] field = "lastVisit" -> c.lastVisit
      [] field = "email" -> JStr(c.email)

FieldType(field) ==
    CASE field = "totalSpend" -> "num"
      [] field = "visitCount" -> "num"
      [] field = "lastVisit" -> "date"
      [] field = "email" -> "str"

IsPrefix(p, s) == Len(p) <= Len(s) /\ SubSeq(s, 1, Len(p)) = p

IsSuffix(p, s) == Len(p) <= Len(s) /\ SubSeq(s, Len(s) - Len(p) + 1, Len(s)) = p

IsInfix(p, s) ==
    \E i \in 0..(Len(s) - Len(p)) : SubSeq(s, i + 1, i + Len(p)) = p

\* The client rejects a filter argument that is not a value of the column's
\* type (NaN, an invalid Date, a number for a string column); an undefined
\* argument is no filter at all.
FilterRejected(field, f) ==
    /\ f.arg.t # "undefined"
    /\ f.arg.t # FieldType(field)

\* Whether a column value passes one filter; a NULL column passes none.
FilterMatches(fv, f) ==
    \/ f.arg.t = "undefined"
    \/ /\ fv.t # "null"
       /\ CASE f.op = "gt" -> fv.n > f.arg.n
            [] f.op = "gte" -> fv.n >= f.arg.n
            [] f.op = "lt" -> fv.n < f.arg.n
            [] f.op = "lte" -> fv.n <= f.arg.n
            [] f.op = "equals" -> fv.n = f.arg.n /\ fv.s = f.arg.s
            [] f.op = "contains" -> IsInfix(f.arg.s, fv.s)
            [] f.op = "startsWith" -> IsPrefix(f.arg.s, fv.s)
            [] f.op = "endsWith" -> IsSuffix(f.arg.s, fv.s)

ClauseRejected(cl) ==
    \E i \in 1..Len(cl.filters) : FilterRejected(cl.field, cl.filters[i])

ClauseMatches(cl, c) ==
    \A i \in 1..Len(cl.filters) : FilterMatches(FieldValue(c, cl.field), cl.filters[i])

\* WhereMatches deciding AND and OR on the first clause alone.
WhereMatches_FirstOnly(kind, clauses, c) ==
    clauses = <<>> \/ ClauseMatches(clauses[1], c)

\* WhereMatches with OR requiring every clause.
WhereMatches_OrAsAnd(kind, clauses, c) ==
    CASE kind = "AND" -> \A i \in 1..Len(clauses) : ClauseMatches(clauses[i], c)
      [] kind = "OR" -> \A i \in 1..Len(clauses) : ClauseMatches(clauses[i], c)
      [] OTHER -> ClauseMatches(clauses[1], c)

\* where: {AND: clauses}, {OR: clauses} or one clause (kind "ONE").
WhereMatches(kind, clauses, c) ==
    CASE kind = "AND" -> \A i \in 1..Len(clauses) : ClauseMatches(clauses[i], c)
      [] kind = "OR" -> \E i \in 1..Len(clauses) : ClauseMatches(clauses[i], c)
      [] OTHER -> ClauseMatches(clauses[1], c)

\* The rows of a table that pass a test, in table order.
RECURSIVE SelectRows(_, _, _)
SelectRows(kind, clauses, table) ==
    IF table = <<>> THEN <<>>
    ELSE IF Len(table) = 1
    THEN (IF WhereMatches(kind, clauses, table[1]) THEN table ELSE <<>>)
    ELSE LET half == Len(table) \div 2
         IN  SelectRows(kind, clauses, SubSeq(table, 1, half))
                \o SelectRows(kind, clauses, SubSeq(table, half + 1, Len(table)))

Returned(ids) == [ok |-> TRUE, error |-> "", ids |-> ids]

Failed(e) == [ok |-> FALSE, error |-> e, ids |-> <<>>]

\* findMany returning the position of each row in the result, not its id.
findMany_RowIndex(kind, clauses, table) ==
    IF \E i \in 1..Len(clauses) : ClauseRejected(clauses[i])
    THEN Failed("PrismaClientValidationError")
    ELSE LET rows == SelectRows(kind, clauses, table)
         IN  Returned([i \in 1..Len(rows) |-> i])

\* prisma.customer.findMany({where, select: {id: true}}) followed by
\* customers.map(c => c.id).
findMany(kind, clauses, table) ==
    IF \E i \in 1..Len(clauses) : ClauseRejected(clauses[i])
    THEN Failed("PrismaClientValidationError")
    ELSE LET rows == SelectRows(kind, clauses, table)
         IN  Returned([i \in 1..Len(rows) |-> rows[i].id])

\* evaluateSegmentRules without the single-condition branch: a rule that is
\* not an OR is taken as an AND of its conditions list.
evaluateSegmentRules_NoSingle(rules, table, now) ==
    LET kind == IF rules.type = "OR" THEN "OR" ELSE "AND"
        conds == rules.conditions
        built == [i \in 1..Len(conds) |-> buildCondition(conds[i], now)]
        bad == {i \in 1..Len(conds) : ~built[i].ok}
    IN  IF bad # {}
        THEN Failed(built[CHOOSE i \in bad : \A j \in bad : i <= j].error)
        ELSE findMany(kind, built, table)

evaluateSegmentRules(rules, table, now) ==
    LET kind == IF rules.type \in {"AND", "OR"} THEN rules.type ELSE "ONE"
        conds == IF kind = "ONE" THEN <<rules>> ELSE rules.conditions
        built == [i \in 1..Len(conds) |-> buildCondition(conds[i], now)]
        bad == {i \in 1..Len(conds) : ~built[i].ok}
    IN  IF bad # {}
        THEN Failed(built[CHOOSE i \in bad : \A j \in bad : i <= j].error)
        ELSE findMany(kind, built, table)

(***************************************************************************)
(* SpecEval: one call of evaluateSegmentRules on a rule and a table drawn  *)
(* from bounded sets.                                                      *)
(***************************************************************************)
\* The rule of the documented example.
ExampleRule ==
    Tree("AND", <<Leaf("totalSpend", "gt", JNum(500)), Leaf("visitCount", "gte", JNum(3))>>)

EvMaxCustomers == 5
MaxConds == 2

\* Six customers of varied spend, visits, last visit and email; the first
\* three are the (1200,3), (50,1), (800,5) customers of the documented example.
CustomerFixture ==
    << Customer(1, <<"a", "@", "x">>, 1200, 3, JDate(20)),
       Customer(2, <<"b", "@", "y">>, 50, 1, JDate(5)),
       Customer(3, <<"a", "b", "@", "x">>, 800, 5, JDate(10)),
       Customer(4, <<"c", "@", "y">>, 500, 3, JNull),
       Customer(5, <<"a", "@", "y">>, 0, 0, JNull),
       Customer(6, <<"b", "@", "x">>, 800, 2, JDate(30)),
       Customer(7, <<"x", "@", "x">>, 1200, 1, JDate(15)) >>

\* The fixture rows whose ids are in S, in table order.
RECURSIVE Rows(_, _)
Rows(S, i) ==
    IF i > Len(CustomerFixture) THEN <<>>
    ELSE (IF i \in S THEN <<CustomerFixture[i]>> ELSE <<>>) \o Rows(S, i + 1)

EvTables == {Rows(S, 1) : S \in SUBSET (1..EvMaxCustomers)}

\* Well-formed leaf conditions: a known field, an operator of the field's
\* type, a value of the field's type (a number, or a string holding one).
GoodLeaves ==
    { Leaf("totalSpend", "gt", JNum(500)),
      Leaf("visitCount", "gte", JNum(3)),
      Leaf("totalSpend", "lte", JStr(<<"8", "0", "0">>)),
      Leaf("visitCount", "eq", JNum(1)),
      Leaf("visitCount", "lt", JStr(<<"3">>)),
      Leaf("email", "endsWith", JStr(<<"@", "x">>)),
      Leaf("email", "contains", JStr(<<"b">>)),
      Leaf("lastVisit", "before", JStr(<<"1", "0">>)),
      Leaf("lastVisit", "daysAgo", JNum(15)) }

\* Conditions the builders or the query refuse.
BadLeaves ==
    { Leaf("age", "gt", JNum(1)),
      Leaf("totalSpend", "contains", JNum(5)),
      Leaf("totalSpend", "gt", JStr(<<"a", "b", "c">>)) }

LeafPool == GoodLeaves \cup BadLeaves

\* Date conditions with after and between, on days customers visited last.
DateLeaves ==
    { Leaf("lastVisit", "after", JStr(<<"1", "0">>)),
      Leaf("lastVisit", "between", JStr(<<"1", "0", ",", "2", "0">>)) }

\* between values that do not hold two dates: one endpoint, three endpoints,
\* an endpoint that is no date, a number.
BetweenLeaves ==
    { Leaf("lastVisit", "between", JStr(<<"1", "0">>)),
      Leaf("lastVisit", "between", JStr(<<"5", ",", "1", "0", ",", "2", "0">>)),
      Leaf("lastVisit", "between", JStr(<<"1", "0", ",", "x">>)),
      Leaf("lastVisit", "between", JNum(10)) }

\* Operators of another field type, and a visit count that is no number.
MistypedLeaves ==
    { Leaf("email", "gt", JNum(1)),
      Leaf("lastVisit", "eq", JStr(<<"1", "0">>)),
      Leaf("visitCount", "eq", JStr(<<"x">>)) }

ExtraLeaves == DateLeaves \cup BetweenLeaves \cup MistypedLeaves

\* Each extra leaf, bare, alone in a tree, and before and after a good leaf.
ExtraRules ==
    ExtraLeaves \cup
    {Tree(ty, cs) : ty \in {"AND", "OR"},
                   cs \in UNION {{<<l>>, <<l, Leaf("totalSpend", "gt", JNum(500))>>,
                                   <<Leaf("totalSpend", "gt", JNum(500)), l>>} : l \in ExtraLeaves}}

\* AND/OR subtrees used as entries of a conditions list.
SubTrees ==
    { Tree("OR", <<Leaf("visitCount", "gte", JNum(3)), Leaf("visitCount", "eq", JNum(1))>>),
      Tree("AND", <<Leaf("totalSpend", "gt", JNum(500)),
                    Leaf("email", "endsWith", JStr(<<"@", "x">>))>>),
      Tree("OR", <<Leaf("totalSpend", "gt", JNum(500)),
                   Tree("AND", <<Leaf("visitCount", "gte", JNum(3))>>)>>) }

SeqsUpTo(S, n) == UNION {[1..k -> S] : k \in 0..n}

EvRules ==
    LeafPool \cup {Tree(ty, cs) : ty \in {"AND", "OR"}, cs \in SeqsUpTo(LeafPool \cup SubTrees, MaxConds)}
        \cup ExtraRules

EvClock == {30}

Pending == [ok |-> FALSE, error |-> "pending", ids |-> <<>>]

\* The days by which the second call may come after the first.
EvLater == {0, 10}

InitEval ==
    /\ evCustomers \in EvTables
    /\ evRule \in EvRules
    /\ evNow \in EvClock
    /\ evResult = Pending
    /\ evAgainNow = evNow
    /\ evAgain = Pending
    /\ evWhere = <<>>

EvaluateCall ==
    /\ evResult = Pending
    /\ evResult' = evaluateSegmentRules(evRule, evCustomers, evNow)
    /\ UNCHANGED <<evCustomers, evRule, evNow, evAgainNow, evAgain, evWhere, beVars, feVars, cmVars, cgVars>>

\* The second call reading a clock ten days ahead of the moment it is made at.
EvaluateAgain_AheadClock(later) ==
    /\ evResult # Pending /\ evAgain = Pending
    /\ evAgainNow' = evNow + later
    /\ evAgain' = evaluateSegmentRules(evRule, evCustomers, evNow + later + 10)
    /\ UNCHANGED <<evCustomers, evRule, evNow, evResult, evWhere, beVars, feVars, cmVars, cgVars>>

\* A second call of evaluateSegmentRules with the same rule, the customer
\* table unchanged, at the same moment or later.
EvaluateAgain(later) ==
    /\ evResult # Pending /\ evAgain = Pending
    /\ evAgainNow' = evNow + later
    /\ evAgain' = evaluateSegmentRules(evRule, evCustomers, evNow + later)
    /\ UNCHANGED <<evCustomers, evRule, evNow, evResult, evWhere, beVars, feVars, cmVars, cgVars>>

AgainRequests == \E later \in EvLater : EvaluateAgain(later)

NextEval ==
    \/ EvaluateCall
    \/ AgainRequests

(***************************************************************************)
(* SpecClock: one call of evaluateSegmentRules on a rule with daysAgo      *)
(* conditions, each condition reading the clock as it is built.            *)
(***************************************************************************)
\* The conditions rules.conditions.map(...) runs over; the rule itself when it
\* has no AND/OR type.
ConditionsOf(rules) == IF rules.type \in {"AND", "OR"} THEN rules.conditions ELSE <<rules>>

\* The conditions built, the i-th one with the clock reading readings[i] that
\* its own new Date() returns.
whereClause(rules, readings) ==
    [i \in 1..Len(ConditionsOf(rules)) |-> buildCondition(ConditionsOf(rules)[i], readings[i])]

\* evaluateSegmentRules, given the clock reading of each condition's build.
evaluateSegmentRulesAt(rules, table, readings) ==
    LET kind == IF rules.type \in {"AND", "OR"} THEN rules.type ELSE "ONE"
        built == whereClause(rules, readings)
        bad == {i \in 1..Len(built) : ~built[i].ok}
    IN  IF bad # {}
        THEN Failed(built[CHOOSE i \in bad : \A j \in bad : i <= j].error)
        ELSE findMany(kind, built, table)

\* Day counts given to daysAgo.
DayCounts == {10, 15, 20}

DaysAgoLeaves == {Leaf("lastVisit", "daysAgo", JNum(n)) : n \in DayCounts}

\* Rules with one or two daysAgo conditions, alone or next to a spend condition.
ClockRules ==
    DaysAgoLeaves \cup
    {Tree(ty, cs) : ty \in {"AND", "OR"},
                   cs \in {<<a, b>> : a \in DaysAgoLeaves,
                                      b \in DaysAgoLeaves \cup {Leaf("totalSpend", "gt", JNum(500))}}}

\* The days the clock advances by before a condition reads it.
Ticks == {0, 1}

\* The reading of the i-th condition: the clock at the call plus the ticks
\* that came before the i-th read.
RECURSIVE ReadingAt(_, _, _)
ReadingAt(now, ticks, i) == IF i = 0 THEN now ELSE ReadingAt(now, ticks, i - 1) + ticks[i]

InitClock ==
    /\ evCustomers \in EvTables
    /\ evRule \in ClockRules
    /\ evNow \in EvClock
    /\ evResult = Pending
    /\ evAgainNow = evNow
    /\ evAgain = Pending
    /\ evWhere = <<>>

\* One call of evaluateSegmentRules during which the clock advances by
\* ticks[i] before the i-th condition is built.
EvaluateTicking(ticks) ==
    /\ evResult = Pending
    /\ LET readings == [i \in 1..Len(ConditionsOf(evRule)) |-> ReadingAt(evNow, ticks, i)]
       IN  /\ evWhere' = whereClause(evRule, readings)
           /\ evResult' = evaluateSegmentRulesAt(evRule, evCustomers, readings)
    /\ UNCHANGED <<evCustomers, evRule, evNow, evAgainNow, evAgain, beVars, feVars, cmVars, cgVars>>

TickingCalls == \E ticks \in [1..Len(ConditionsOf(evRule)) -> Ticks] : EvaluateTicking(ticks)

NextClock == TickingCalls

(***************************************************************************)
(* Spec: the backend routes over the database.                             *)
(***************************************************************************)
MaxCustomers == 2
MaxOrders == 1
MaxSegments == 1
PreviewMaxCustomers == 6
batchSize == 100
StartDay == 30

Users == {"u1", "u2"}

\* String.prototype.trim on a sequence of characters.
RECURSIVE TrimLeft(_)
TrimLeft(s) == IF s # <<>> /\ Head(s) = " " THEN TrimLeft(Tail(s)) ELSE s

RECURSIVE TrimRight(_)
TrimRight(s) ==
    IF s # <<>> /\ s[Len(s)] = " " THEN TrimRight(SubSeq(s, 1, Len(s) - 1)) ELSE s

Trim(s) == TrimRight(TrimLeft(s))

\* body('name').trim().notEmpty(): a string that is not empty once trimmed.
NameValid(name) == name.t = "str" /\ Trim(name.s) # <<>>

\* The body's rules property: an object (a rule node) or something else.
RulesObject(r) == [isObject |-> TRUE, rule |-> r]

RulesMissing == [isObject |-> FALSE, rule |-> Leaf("undefined", "undefined", JUndef)]

\* POST /api/segments validators: name, optional description, rules.isObject().
CreateValid(name, description, rules) ==
    /\ NameValid(name)
    /\ description.t \in {"undefined", "str"}
    /\ rules.isObject

Segment(id, name, description, rules, user) ==
    [id |-> id, name |-> name, description |-> description,
     rules |-> rules, createdById |-> user]

NoRequest == [pc |-> "idle", segment |-> Segment(0, JUndef, JUndef, RulesMissing.rule, ""),
              matchingCustomers |-> <<>>, i |-> 0]

Response(op, status, id, count, sample) ==
    [op |-> op, status |-> status, id |-> id, customerCount |-> count,
     sampleCustomers |-> sample]

NoResponse == Response("none", 0, 0, 0, <<>>)

\* The customers of a segment: the customerSegment rows with its id.
MembersIn(table, segId) == {row[1] : row \in {r \in table : r[2] = segId}}

Members(segId) == MembersIn(customerSegment, segId)

SegmentIds == {segments[i].id : i \in 1..Len(segments)}

\* array.slice(from, to)
Slice(a, from, to) ==
    LET hi == IF to < Len(a) THEN to ELSE Len(a)
    IN  [k \in 1..(IF hi > from THEN hi - from ELSE 0) |-> a[from + k]]

\* The address of the n-th customer created.
EmailOf(n) == <<"c", CHOOSE d \in Digits : DigitVal(d) = n, "@", "x">>

\* Request bodies.
NameInputs == {JUndef, JStr(<<" ">>), JStr(<<"V">>)}

DescriptionInputs == {JUndef, JStr(<<"d">>)}

SegmentRules ==
    { Leaf("totalSpend", "gt", JNum(500)),
      Tree("AND", <<>>),
      Leaf("age", "gt", JNum(1)) }

RulesInputs == {RulesMissing} \cup {RulesObject(r) : r \in SegmentRules}

AmountInputs == {-1, 600}

InitBackend ==
    /\ customers = <<>>
    /\ orders = <<>>
    /\ segments = <<>>
    /\ customerSegment = {}
    /\ creating = NoRequest
    /\ response = NoResponse
    /\ beNow = StartDay

BackendIdle == InitBackend

EvalIdle ==
    /\ evCustomers = <<>>
    /\ evRule = ExampleRule
    /\ evNow = StartDay
    /\ evResult = Pending
    /\ evAgainNow = StartDay
    /\ evAgain = Pending
    /\ evWhere = <<>>

\* POST /api/customers
PostCustomer(email, name) ==
    /\ IF ~NameValid(name) \/ email = <<>>
       THEN /\ response' = Response("customer", 400, 0, 0, <<>>)
            /\ UNCHANGED customers
       ELSE IF \E i \in 1..Len(customers) : customers[i].email = email
       THEN /\ response' = Response("customer", 400, 0, 0, <<>>)
            /\ UNCHANGED customers
       ELSE /\ customers' = Append(customers, Customer(Len(customers) + 1, email, 0, 0, JNull))
            /\ response' = Response("customer", 201, Len(customers) + 1, 0, <<>>)
    /\ UNCHANGED <<orders, segments, customerSegment, creating, beNow, evVars, feVars, cmVars, cgVars>>

\* POST /api/customers/:id/orders
PostOrder(id, amount) ==
    /\ IF amount < 0
       THEN /\ response' = Response("order", 400, 0, 0, <<>>)
            /\ UNCHANGED <<customers, orders>>
       ELSE IF id \notin 1..Len(customers)
       THEN /\ response' = Response("order", 500, 0, 0, <<>>)
            /\ UNCHANGED <<customers, orders>>
       ELSE /\ orders' = Append(orders, [customerId |-> id, amount |-> amount])
            /\ customers' = [customers EXCEPT ![id] =
                    [@ EXCEPT !.totalSpend = @ + amount,
                              !.visitCount = @ + 1,
                              !.lastVisit = JDate(beNow)]]
            /\ response' = Response("order", 201, Len(orders) + 1, 0, <<>>)
    /\ UNCHANGED <<segments, customerSegment, creating, beNow, evVars, feVars, cmVars, cgVars>>

\* PostPreview returning every matching id as the sample.
PostPreview_NoSlice(rules) ==
    /\ IF ~rules.isObject
       THEN response' = Response("preview", 400, 0, 0, <<>>)
       ELSE LET matchingCustomers == evaluateSegmentRules(rules.rule, customers, beNow)
            IN  IF ~matchingCustomers.ok
                THEN response' = Response("preview", 500, 0, 0, <<>>)
                ELSE response' = Response("preview", 200, 0, Len(matchingCustomers.ids),
                                          matchingCustomers.ids)
    /\ UNCHANGED <<customers, orders, segments, customerSegment, creating, beNow, evVars, feVars, cmVars, cgVars>>

\* A preview that records the customers it matched as members of segment 0.
PostPreview_Persisting(rules) ==
    /\ IF ~rules.isObject
       THEN response' = Response("preview", 400, 0, 0, <<>>) /\ UNCHANGED customerSegment
       ELSE LET matchingCustomers == evaluateSegmentRules(rules.rule, customers, beNow)
            IN  IF ~matchingCustomers.ok
                THEN response' = Response("preview", 500, 0, 0, <<>>) /\ UNCHANGED customerSegment
                ELSE /\ response' = Response("preview", 200, 0, Len(matchingCustomers.ids),
                                             Slice(matchingCustomers.ids, 0, 5))
                     /\ customerSegment' = customerSegment \cup
                            {<<matchingCustomers.ids[k], 0>> : k \in 1..Len(matchingCustomers.ids)}
    /\ UNCHANGED <<customers, orders, segments, creating, beNow, evVars, feVars, cmVars, cgVars>>

\* POST /api/segments/preview
PostPreview(rules) ==
    /\ IF ~rules.isObject
       THEN response' = Response("preview", 400, 0, 0, <<>>)
       ELSE LET matchingCustomers == evaluateSegmentRules(rules.rule, customers, beNow)
            IN  IF ~matchingCustomers.ok
                THEN response' = Response("preview", 500, 0, 0, <<>>)
                ELSE response' = Response("preview", 200, 0, Len(matchingCustomers.ids),
                                          Slice(matchingCustomers.ids, 0, 5))
    /\ UNCHANGED <<customers, orders, segments, customerSegment, creating, beNow, evVars, feVars, cmVars, cgVars>>

\* POST /api/segments, up to the first await: validation and segment.create.
CreateStart(user, name, description, rules) ==
    /\ creating.pc = "idle"
    /\ IF ~CreateValid(name, description, rules)
       THEN /\ response' = Response("create", 400, 0, 0, <<>>)
            /\ UNCHANGED <<segments, creating>>
       ELSE LET segment == Segment(Len(segments) + 1, name, description, rules.rule, user)
            IN  /\ segments' = Append(segments, segment)
                /\ creating' = [pc |-> "evaluate", segment |-> segment,
                                matchingCustomers |-> <<>>, i |-> 0]
                /\ UNCHANGED response
    /\ UNCHANGED <<customers, orders, customerSegment, beNow, evVars, feVars, cmVars, cgVars>>

\* CreateEvaluate that also counts the evaluation as a visit of each
\* customer it matched.
CreateEvaluate_CountingVisit ==
    /\ creating.pc = "evaluate"
    /\ LET matchingCustomers == evaluateSegmentRules(creating.segment.rules, customers, beNow)
       IN  IF ~matchingCustomers.ok
           THEN /\ response' = Response("create", 500, 0, 0, <<>>)
                /\ creating' = NoRequest
                /\ UNCHANGED customers
           ELSE /\ creating' = [creating EXCEPT !.pc = "insert",
                                                !.matchingCustomers = matchingCustomers.ids]
                /\ customers' = [i \in 1..Len(customers) |->
                        IF \E k \in 1..Len(matchingCustomers.ids) :
                                matchingCustomers.ids[k] = customers[i].id
                        THEN [customers[i] EXCEPT !.visitCount = @ + 1]
                        ELSE customers[i]]
                /\ UNCHANGED response
    /\ UNCHANGED <<orders, segments, customerSegment, beNow, evVars, feVars, cmVars, cgVars>>

\* POST /api/segments: await evaluateSegmentRules(rules); a throw ends the
\* request in the catch block.
CreateEvaluate ==
    /\ creating.pc = "evaluate"
    /\ LET matchingCustomers == evaluateSegmentRules(creating.segment.rules, customers, beNow)
       IN  IF ~matchingCustomers.ok
           THEN /\ response' = Response("create", 500, 0, 0, <<>>)
                /\ creating' = NoRequest
           ELSE /\ creating' = [creating EXCEPT !.pc = "insert",
                                                !.matchingCustomers = matchingCustomers.ids]
                /\ UNCHANGED response
    /\ UNCHANGED <<customers, orders, segments, customerSegment, beNow, evVars, feVars, cmVars, cgVars>>

\* CreateInsertBatch with a batch that stops one element short.
CreateInsertBatch_ShortBatch ==
    /\ creating.pc = "insert"
    /\ creating.i < Len(creating.matchingCustomers)
    /\ LET batch == Slice(creating.matchingCustomers, creating.i, creating.i + batchSize - 1)
       IN  customerSegment' = customerSegment \cup
                {<<batch[k], creating.segment.id>> : k \in 1..(Len(batch) - 1)}
    /\ creating' = [creating EXCEPT !.i = @ + batchSize]
    /\ UNCHANGED <<customers, orders, segments, response, beNow, evVars, feVars, cmVars, cgVars>>

\* POST /api/segments: one turn of the batch loop (createMany, skipDuplicates).
CreateInsertBatch ==
    /\ creating.pc = "insert"
    /\ creating.i < Len(creating.matchingCustomers)
    /\ LET batch == Slice(creating.matchingCustomers, creating.i, creating.i + batchSize)
       IN  customerSegment' = customerSegment \cup
                {<<batch[k], creating.segment.id>> : k \in 1..Len(batch)}
    /\ creating' = [creating EXCEPT !.i = @ + batchSize]
    /\ UNCHANGED <<customers, orders, segments, response, beNow, evVars, feVars, cmVars, cgVars>>

\* POST /api/segments: the loop is over, res.status(201).
CreateRespond ==
    /\ creating.pc = "insert"
    /\ creating.i >= Len(creating.matchingCustomers)
    /\ response' = Response("create", 201, creating.segment.id,
                            Len(creating.matchingCustomers), <<>>)
    /\ creating' = NoRequest
    /\ UNCHANGED <<customers, orders, segments, customerSegment, beNow, evVars, feVars, cmVars, cgVars>>

\* The elements of a set of numbers, in ascending order.
Ascending(S) ==
    [k \in 1..Cardinality(S) |-> CHOOSE x \in S : Cardinality({y \in S : y < x}) = k - 1]

\* customers: {take: n} without an order: all the rows when there are at most
\* n, otherwise n of them, which ones being up to the database (here: the n
\* first or the n last by id).
Take(S, n) ==
    IF Cardinality(S) <= n THEN {Ascending(S)}
    ELSE {Slice(Ascending(S), 0, n), Slice(Ascending(S), Cardinality(S) - n, Cardinality(S))}

\* GET /api/segments/:id answering an unknown id as an empty segment.
GetSegment_UnknownAsEmpty(id) ==
    /\ \E taken \in Take(Members(id), 10) :
            response' = Response("get", 200, id, Cardinality(Members(id)), taken)
    /\ UNCHANGED <<customers, orders, segments, customerSegment, creating, beNow, evVars, feVars, cmVars, cgVars>>

\* GET /api/segments/:id
GetSegment(id) ==
    /\ IF id \notin SegmentIds
       THEN response' = Response("get", 404, 0, 0, <<>>)
       ELSE \E taken \in Take(Members(id), 10) :
                response' = Response("get", 200, id, Cardinality(Members(id)), taken)
    /\ UNCHANGED <<customers, orders, segments, customerSegment, creating, beNow, evVars, feVars, cmVars, cgVars>>

\* The requests the clients send, within the bounds on the tables.
CustomerRequests ==
    \E name \in {JUndef, JStr(<<"n">>)} :
        \E email \in {<<>>, EmailOf(1), EmailOf(Len(customers) + 1)} :
            PostCustomer(email, name)

OrderRequests ==
    /\ Len(orders) < MaxOrders
    /\ \E id \in 1..(Len(customers) + 1) : \E amount \in AmountInputs : PostOrder(id, amount)

PreviewRequests == \E rules \in RulesInputs : PostPreview(rules)

CreateRequests ==
    /\ Len(segments) < MaxSegments
    /\ \E user \in Users : \E name \in NameInputs : \E description \in DescriptionInputs :
            \E rules \in RulesInputs : CreateStart(user, name, description, rules)

\* Segment ids asked for: those stored and the next, not yet given.
GetRequests == \E id \in 1..(Len(segments) + 1) : GetSegment(id)

NextBackend ==
    \/ Len(customers) < MaxCustomers /\ CustomerRequests
    \/ OrderRequests
    \/ PreviewRequests
    \/ CreateRequests
    \/ CreateEvaluate
    \/ CreateInsertBatch
    \/ CreateRespond
    \/ GetRequests

\* The customer routes and the preview route alone, on a larger customer table.
NextPreview ==
    \/ Len(customers) < PreviewMaxCustomers /\ CustomerRequests
    \/ OrderRequests
    \/ PreviewRequests

(***************************************************************************)
(* SpecBatch: POST /api/segments and GET /api/segments/:id over a customer *)
(* table that takes two createMany batches to record.                      *)
(***************************************************************************)
\* One customer more than a batch holds.
BatchCustomers == batchSize + 1

\* The decimal digits of a natural number.
RECURSIVE Decimal(_)
Decimal(n) ==
    LET last == <<CHOOSE d \in Digits : DigitVal(d) = n % 10>>
    IN  IF n < 10 THEN last ELSE Decimal(n \div 10) \o last

\* The address of the n-th customer of the long table.
BatchEmailOf(n) == <<"c">> \o Decimal(n) \o <<"@", "x">>

\* The tables after BatchCustomers customers were created and each placed one
\* order of 600 on day StartDay.
InitBatch ==
    /\ customers = [n \in 1..BatchCustomers |->
                        Customer(n, BatchEmailOf(n), 600, 1, JDate(StartDay))]
    /\ orders = [n \in 1..BatchCustomers |-> [customerId |-> n, amount |-> 600]]
    /\ segments = <<>>
    /\ customerSegment = {}
    /\ creating = NoRequest
    /\ response = NoResponse
    /\ beNow = StartDay

NextBatch ==
    \/ CreateRequests
    \/ CreateEvaluate
    \/ CreateInsertBatch
    \/ CreateRespond
    \/ GetRequests

(***************************************************************************)
(* SpecFE: the customers page and the segments page of the frontend, which *)
(* keep customers and segments in localStorage.  One page is mounted at a  *)
(* time; a page loads its state from localStorage when it mounts.          *)
(***************************************************************************)
MaxIds == 3
MaxPurchases == 1

FECustomer(id, totalPurchases) == [id |-> id, totalPurchases |-> totalPurchases]

FESegment(id, name, description, customerCount, rules, matchedCustomerIds) ==
    [id |-> id, name |-> name, description |-> description,
     customerCount |-> customerCount, rules |-> rules,
     matchedCustomerIds |-> matchedCustomerIds]

\* A rule is a string "field operator value"; it is kept as the pieces
\* rule.split(" ") yields.
RuleInputs ==
    { <<"totalPurchases", ">", "0">>,
      <<"totalPurchases", "<", "1">>,
      <<"totalPurchases", ">=", "1">>,
      <<"age", ">", "0">> }

\* The rule lists the form is taken through.
RuleLists ==
    { <<>>,
      << <<"totalPurchases", ">", "0">> >>,
      << <<"totalPurchases", "<", "1">> >>,
      << <<"totalPurchases", ">=", "1">> >>,
      << <<"age", ">", "0">> >>,
      << <<"totalPurchases", ">", "0">>, <<"totalPurchases", "<", "1">> >> }

\* Number(value) for the value pieces used: digits are a number, the rest NaN.
Number(token) ==
    CASE token = "0" -> JNum(0)
      [] token = "1" -> JNum(1)
      [] token = "2" -> JNum(2)
      [] OTHER -> JNaN

\* customer[field]
CustomerField(customer, field) ==
    CASE field = "totalPurchases" -> JNum(customer.totalPurchases)
      [] field = "id" -> JNum(customer.id)
      [] OTHER -> JUndef

\* One rule of getMatchedCustomers on one customer.
RulePasses(customer, rule) ==
    LET field == rule[1]
        operator == rule[2]
        value == rule[3]
        fieldValue == CustomerField(customer, field)
        parsedValue == IF Number(value).t = "nan" THEN JStr(<<value>>) ELSE Number(value)
        bothNumbers == fieldValue.t = "num" /\ parsedValue.t = "num"
    IN  CASE operator = ">" -> bothNumbers /\ fieldValue.n > parsedValue.n
          [] operator = "<" -> bothNumbers /\ fieldValue.n < parsedValue.n
          [] operator \in {"=", "=="} -> bothNumbers /\ fieldValue.n = parsedValue.n
          [] operator = "!=" -> ~(bothNumbers /\ fieldValue.n = parsedValue.n)
          [] OTHER -> FALSE

RECURSIVE FilterCustomers(_, _)
FilterCustomers(cs, rules) ==
    IF cs = <<>> THEN <<>>
    ELSE (IF \A i \in 1..Len(rules) : RulePasses(Head(cs), rules[i])
          THEN <<Head(cs)>> ELSE <<>>) \o FilterCustomers(Tail(cs), rules)

\* getMatchedCustomers(rules), over the page's customers state.
getMatchedCustomers(cs, rules) == FilterCustomers(cs, rules)

MapIds(cs) == [i \in 1..Len(cs) |-> cs[i].id]

RECURSIVE RemoveAll(_, _)
RemoveAll(seq, x) ==
    IF seq = <<>> THEN <<>>
    ELSE (IF Head(seq) = x THEN <<>> ELSE <<Head(seq)>>) \o RemoveAll(Tail(seq), x)

RECURSIVE RemoveSegment(_, _)
RemoveSegment(segs, id) ==
    IF segs = <<>> THEN <<>>
    ELSE (IF Head(segs).id = id THEN <<>> ELSE <<Head(segs)>>) \o RemoveSegment(Tail(segs), id)

InitFrontend ==
    /\ lsCustomers = <<>>
    /\ lsSegments = <<>>
    /\ fePage = "customers"
    /\ cpCustomers = <<>>
    /\ spSegments = <<>>
    /\ spCustomers = <<>>
    /\ spName = ""
    /\ spDescription = ""
    /\ spRules = <<>>
    /\ spEditingId = 0
    /\ spIsCreating = FALSE
    /\ feNow = 1

FrontendIdle == InitFrontend

\* Leaving the customers page for the segments page: SegmentsPage mounts and
\* its effect loads segments and customers from localStorage.
OpenSegmentsPage ==
    /\ fePage = "customers"
    /\ fePage' = "segments"
    /\ spSegments' = lsSegments
    /\ spCustomers' = lsCustomers
    /\ spName' = "" /\ spDescription' = "" /\ spRules' = <<>>
    /\ spEditingId' = 0 /\ spIsCreating' = FALSE
    /\ cpCustomers' = <<>>
    /\ UNCHANGED <<lsVars, feNow, evVars, beVars, cmVars, cgVars>>

\* Leaving the segments page for the customers page: CustomersPage mounts and
\* loads customers from localStorage.
OpenCustomersPage ==
    /\ fePage = "segments"
    /\ ~spIsCreating
    /\ fePage' = "customers"
    /\ cpCustomers' = lsCustomers
    /\ spSegments' = <<>> /\ spCustomers' = <<>>
    /\ spName' = "" /\ spDescription' = "" /\ spRules' = <<>>
    /\ spEditingId' = 0 /\ spIsCreating' = FALSE
    /\ UNCHANGED <<lsVars, feNow, evVars, beVars, cmVars, cgVars>>

\* CustomersPage.handleAddCustomer with every field of the form filled in.
handleAddCustomer ==
    /\ fePage = "customers"
    /\ LET updatedCustomers == Append(cpCustomers, FECustomer(feNow, 0))
       IN  /\ cpCustomers' = updatedCustomers
           /\ lsCustomers' = updatedCustomers
    /\ feNow' = feNow + 1
    /\ UNCHANGED <<lsSegments, fePage, spVars, evVars, beVars, cmVars, cgVars>>

\* updateSegmentCustomerCount that also evaluates each segment's rules again.
updateSegmentCustomerCount_Reevaluate(segs, cs) ==
    [i \in 1..Len(segs) |->
        [segs[i] EXCEPT !.customerCount = Len(getMatchedCustomers(cs, segs[i].rules)),
                        !.matchedCustomerIds = MapIds(getMatchedCustomers(cs, segs[i].rules))]]

\* CustomersPage.updateSegmentCustomerCount: every stored segment gets the
\* number of customers (of the page state the handler closed over) with more
\* than one purchase.
updateSegmentCustomerCount(segs, cs) ==
    LET customersInSegment == {i \in 1..Len(cs) : cs[i].totalPurchases > 1}
    IN  [i \in 1..Len(segs) |->
            [segs[i] EXCEPT !.customerCount = Cardinality(customersInSegment)]]

\* CustomersPage.handleMakePurchase
handleMakePurchase(customerId) ==
    /\ fePage = "customers"
    /\ LET updatedCustomers ==
            [i \in 1..Len(cpCustomers) |->
                IF cpCustomers[i].id = customerId
                THEN [cpCustomers[i] EXCEPT !.totalPurchases = @ + 1]
                ELSE cpCustomers[i]]
       IN  /\ cpCustomers' = updatedCustomers
           /\ lsCustomers' = updatedCustomers
    /\ lsSegments' = updateSegmentCustomerCount(lsSegments, cpCustomers)
    /\ UNCHANGED <<fePage, spVars, feNow, evVars, beVars, cmVars, cgVars>>

\* The dialog is opened by its trigger or closed from outside (onOpenChange).
SetIsCreating(open) ==
    /\ fePage = "segments"
    /\ spIsCreating # open
    /\ spIsCreating' = open
    /\ UNCHANGED <<lsVars, fePage, cpCustomers, spSegments, spCustomers, spName,
                   spDescription, spRules, spEditingId, feNow, evVars, beVars, cmVars, cgVars>>

\* The Cancel button of the dialog.
CancelDialog ==
    /\ fePage = "segments" /\ spIsCreating
    /\ spIsCreating' = FALSE
    /\ spEditingId' = 0
    /\ UNCHANGED <<lsVars, fePage, cpCustomers, spSegments, spCustomers, spName,
                   spDescription, spRules, feNow, evVars, beVars, cmVars, cgVars>>

SetName(v) ==
    /\ fePage = "segments" /\ spIsCreating
    /\ spName # v
    /\ spName' = v
    /\ UNCHANGED <<lsVars, fePage, cpCustomers, spSegments, spCustomers,
                   spDescription, spRules, spEditingId, spIsCreating, feNow, evVars, beVars, cmVars, cgVars>>

SetDescription(v) ==
    /\ fePage = "segments" /\ spIsCreating
    /\ spDescription # v
    /\ spDescription' = v
    /\ UNCHANGED <<lsVars, fePage, cpCustomers, spSegments, spCustomers,
                   spName, spRules, spEditingId, spIsCreating, feNow, evVars, beVars, cmVars, cgVars>>

\* SegmentsPage.handleAddRule with the text the prompt returned.
handleAddRule(newRule) ==
    /\ fePage = "segments" /\ spIsCreating
    /\ spRules' = Append(spRules, newRule)
    /\ UNCHANGED <<lsVars, fePage, cpCustomers, spSegments, spCustomers,
                   spName, spDescription, spEditingId, spIsCreating, feNow, evVars, beVars, cmVars, cgVars>>

\* SegmentsPage.handleRemoveRule
handleRemoveRule(rule) ==
    /\ fePage = "segments" /\ spIsCreating
    /\ \E i \in 1..Len(spRules) : spRules[i] = rule
    /\ spRules' = RemoveAll(spRules, rule)
    /\ UNCHANGED <<lsVars, fePage, cpCustomers, spSegments, spCustomers,
                   spName, spDescription, spEditingId, spIsCreating, feNow, evVars, beVars, cmVars, cgVars>>

\* SegmentsPage.handleEdit
handleEdit(segment) ==
    /\ fePage = "segments" /\ ~spIsCreating
    /\ spEditingId' = segment.id
    /\ spName' = segment.name
    /\ spDescription' = segment.description
    /\ spRules' = segment.rules
    /\ spIsCreating' = TRUE
    /\ UNCHANGED <<lsVars, fePage, cpCustomers, spSegments, spCustomers, feNow, evVars, beVars, cmVars, cgVars>>

\* SegmentsPage.handleDelete, the confirmation accepted.
handleDelete(segmentId) ==
    /\ fePage = "segments" /\ ~spIsCreating
    /\ LET updatedSegments == RemoveSegment(spSegments, segmentId)
       IN  /\ spSegments' = updatedSegments
           /\ lsSegments' = updatedSegments
    /\ UNCHANGED <<lsCustomers, fePage, cpCustomers, spCustomers, spName, spDescription,
                   spRules, spEditingId, spIsCreating, feNow, evVars, beVars, cmVars, cgVars>>

\* An update that keeps the ids the segment matched before.
updatedSegments_MergeMatched(segs, editingId, newSegment) ==
    IF editingId # 0
    THEN [i \in 1..Len(segs) |->
            IF segs[i].id = editingId
            THEN [newSegment EXCEPT !.matchedCustomerIds = segs[i].matchedCustomerIds \o @]
            ELSE segs[i]]
    ELSE Append(segs, newSegment)

\* updatedSegments of handleCreateSegment: the segment with the edited id is
\* replaced in place, a new segment is appended.
updatedSegments(segs, editingId, newSegment) ==
    IF editingId # 0
    THEN [i \in 1..Len(segs) |-> IF segs[i].id = editingId THEN newSegment ELSE segs[i]]
    ELSE Append(segs, newSegment)

\* SegmentsPage.handleCreateSegment: the Create / Save Changes button.
handleCreateSegment ==
    /\ fePage = "segments" /\ spIsCreating
    /\ IF spName = "" \/ spDescription = "" \/ Len(spRules) = 0
       THEN UNCHANGED <<lsVars, spVars, feNow>>
       ELSE LET matched == getMatchedCustomers(spCustomers, spRules)
                newSegment == FESegment(IF spEditingId # 0 THEN spEditingId ELSE feNow,
                                        spName, spDescription, Len(matched), spRules,
                                        MapIds(matched))
                updated == updatedSegments(spSegments, spEditingId, newSegment)
            IN  /\ spSegments' = updated
                /\ lsSegments' = updated
                /\ spName' = "" /\ spDescription' = "" /\ spRules' = <<>>
                /\ spIsCreating' = FALSE
                /\ spEditingId' = 0
                /\ feNow' = IF spEditingId # 0 THEN feNow ELSE feNow + 1
                /\ UNCHANGED <<lsCustomers, spCustomers>>
    /\ UNCHANGED <<fePage, cpCustomers, evVars, beVars, cmVars, cgVars>>

TotalPurchases(cs) ==
    LET RECURSIVE Sum(_)
        Sum(i) == IF i = 0 THEN 0 ELSE cs[i].totalPurchases + Sum(i - 1)
    IN  Sum(Len(cs))

NextFrontend ==
    \/ OpenSegmentsPage
    \/ OpenCustomersPage
    \/ feNow <= MaxIds /\ handleAddCustomer
    \/ /\ TotalPurchases(cpCustomers) < MaxPurchases
       /\ \E i \in 1..Len(cpCustomers) : handleMakePurchase(cpCustomers[i].id)
    \/ \E open \in BOOLEAN : SetIsCreating(open)
    \/ CancelDialog
    \/ \E v \in {"", "VIP"} : SetName(v)
    \/ \E v \in {"", "big spenders"} : SetDescription(v)
    \/ \E r \in RuleInputs : Append(spRules, r) \in RuleLists /\ handleAddRule(r)
    \/ \E r \in RuleInputs : handleRemoveRule(r)
    \/ \E i \in 1..Len(spSegments) : handleEdit(spSegments[i])
    \/ \E i \in 1..Len(spSegments) : handleDelete(spSegments[i].id)
    \/ (spEditingId # 0 \/ feNow <= MaxIds) /\ handleCreateSegment

(***************************************************************************)
(* SpecOrders: POST /api/customers/:id/orders step by step: the order is   *)
(* stored by one query and the customer's aggregates are updated by a      *)
(* second one, and requests overlap between the two.                       *)
(***************************************************************************)
MaxPlaced == 2

\* sequence without its k-th element
RemoveAt(seq, k) == [i \in 1..(Len(seq) - 1) |-> IF i < k THEN seq[i] ELSE seq[i + 1]]

\* POST /api/customers/:id/orders up to the end of prisma.order.create.
OrderCreate(id, amount) ==
    /\ IF amount < 0
       THEN /\ response' = Response("order", 400, 0, 0, <<>>)
            /\ UNCHANGED <<orders, ordering>>
       ELSE IF id \notin 1..Len(customers)
       THEN /\ response' = Response("order", 500, 0, 0, <<>>)
            /\ UNCHANGED <<orders, ordering>>
       ELSE /\ orders' = Append(orders, [customerId |-> id, amount |-> amount])
            /\ ordering' = Append(ordering, [id |-> Len(orders) + 1, customerId |-> id,
                                             amount |-> amount])
            /\ UNCHANGED response
    /\ UNCHANGED <<customers, segments, customerSegment, creating, beNow,
                   campaigns, communicationLogs, campaigning, delivering, evVars, feVars, cgVars>>

\* OrderUpdate writing the amount as the customer's total spend.
OrderUpdate_SetSpend(k) ==
    /\ k \in 1..Len(ordering)
    /\ customers' = [customers EXCEPT ![ordering[k].customerId] =
            [@ EXCEPT !.totalSpend = ordering[k].amount,
                      !.visitCount = @ + 1,
                      !.lastVisit = JDate(beNow)]]
    /\ ordering' = RemoveAt(ordering, k)
    /\ response' = Response("order", 201, ordering[k].id, 0, <<>>)
    /\ UNCHANGED <<orders, segments, customerSegment, creating, beNow,
                   campaigns, communicationLogs, campaigning, delivering, evVars, feVars, cgVars>>

\* The rest of the request: prisma.customer.update with the increments, then
\* the 201 response.
OrderUpdate(k) ==
    /\ k \in 1..Len(ordering)
    /\ customers' = [customers EXCEPT ![ordering[k].customerId] =
            [@ EXCEPT !.totalSpend = @ + ordering[k].amount,
                      !.visitCount = @ + 1,
                      !.lastVisit = JDate(beNow)]]
    /\ ordering' = RemoveAt(ordering, k)
    /\ response' = Response("order", 201, ordering[k].id, 0, <<>>)
    /\ UNCHANGED <<orders, segments, customerSegment, creating, beNow,
                   campaigns, communicationLogs, campaigning, delivering, evVars, feVars, cgVars>>

OrderCreateRequests ==
    /\ Len(orders) < MaxPlaced
    /\ \E id \in 1..(Len(customers) + 1) : \E amount \in AmountInputs \cup {50} :
            OrderCreate(id, amount)

OrderUpdates == \E k \in 1..Len(ordering) : OrderUpdate(k)

NextOrders ==
    \/ Len(customers) < MaxCustomers /\ CustomerRequests
    \/ OrderCreateRequests
    \/ OrderUpdates

\* No POST /api/campaigns request in progress.
NoCampaignRequest == [pc |-> "idle", user |-> "", segmentId |-> 0, scheduled |-> FALSE,
                      campaignId |-> 0, communicationLogs |-> <<>>, i |-> 0]

\* No batch of receipts in progress.
NoBatch == [pc |-> "idle", updates |-> <<>>, failed |-> FALSE]

\* No order request, no campaign, no log and no campaign or batch request.
CampaignIdle ==
    /\ ordering = <<>>
    /\ campaigns = <<>>
    /\ communicationLogs = <<>>
    /\ campaigning = NoCampaignRequest
    /\ delivering = NoBatch

\* The campaigns page before it is ever opened.
CampaignsPageIdle ==
    /\ lsCampaigns = <<>>
    /\ cgCampaigns = <<>>
    /\ cgName = ""
    /\ cgDescription = ""
    /\ cgStatus = "draft"

(***************************************************************************)
(* SpecCampaign: POST /api/campaigns over segments that are created at the *)
(* same time, with the segment read routes.                                *)
(***************************************************************************)
MaxCampaigns == 1

Campaign(id, segmentId, user, status) ==
    [id |-> id, segmentId |-> segmentId, createdById |-> user, status |-> status]

CommunicationLog(id, campaignId, customerId, status, sentAt) ==
    [id |-> id, campaignId |-> campaignId, customerId |-> customerId,
     status |-> status, sentAt |-> sentAt]

\* Request body of POST /api/campaigns; segmentId 0 stands for a value that
\* is no UUID, scheduledFor FALSE for an absent one.
CampaignBody(name, segmentId, message, scheduledFor) ==
    [name |-> name, segmentId |-> segmentId, message |-> message,
     scheduledFor |-> scheduledFor]

\* The validators of POST /api/campaigns.
CampaignValid(b) ==
    /\ NameValid(b.name)
    /\ b.segmentId # 0
    /\ NameValid(b.message)

\* prisma.segment.findFirst({where: {id, createdById}}): the ids of the
\* segments that pass the filter.
findFirst(segmentId, user) ==
    {segments[i].id : i \in {j \in 1..Len(segments) :
        segments[j].id = segmentId /\ segments[j].createdById = user}}

\* POST /api/campaigns up to the end of prisma.segment.findFirst: validation,
\* then the segment of the requester with its customers, or 404.
CampaignStart(user, b) ==
    /\ campaigning.pc = "idle"
    /\ IF ~CampaignValid(b)
       THEN /\ response' = Response("campaign", 400, 0, 0, <<>>)
            /\ UNCHANGED campaigning
       ELSE IF findFirst(b.segmentId, user) = {}
       THEN /\ response' = Response("campaign", 404, 0, 0, <<>>)
            /\ UNCHANGED campaigning
       ELSE /\ campaigning' = [pc |-> "create", user |-> user, segmentId |-> b.segmentId,
                               scheduled |-> b.scheduledFor, campaignId |-> 0,
                               communicationLogs |-> Ascending(Members(b.segmentId)),
                               i |-> 0]
            /\ UNCHANGED response
    /\ UNCHANGED <<customers, orders, segments, customerSegment, creating, beNow,
                   ordering, campaigns, communicationLogs, delivering,
                   evVars, feVars, cgVars>>

\* POST /api/campaigns: prisma.campaign.create.
CampaignCreate ==
    /\ campaigning.pc = "create"
    /\ campaigns' = Append(campaigns,
            Campaign(Len(campaigns) + 1, campaigning.segmentId, campaigning.user,
                     IF campaigning.scheduled THEN "SCHEDULED" ELSE "DRAFT"))
    /\ campaigning' = [campaigning EXCEPT !.pc = "logs", !.campaignId = Len(campaigns) + 1]
    /\ UNCHANGED <<customers, orders, segments, customerSegment, creating, response, beNow,
                   ordering, communicationLogs, delivering, evVars, feVars, cgVars>>

\* CampaignLogBatch that writes the first log of the batch twice.
CampaignLogBatch_Repeating ==
    /\ campaigning.pc = "logs"
    /\ campaigning.i < Len(campaigning.communicationLogs)
    /\ LET batch == Slice(campaigning.communicationLogs, campaigning.i, campaigning.i + batchSize)
           twice == <<batch[1]>> \o batch
       IN  communicationLogs' = communicationLogs \o
                [k \in 1..Len(twice) |->
                    CommunicationLog(Len(communicationLogs) + k, campaigning.campaignId,
                                     twice[k], "PENDING", JNull)]
    /\ campaigning' = [campaigning EXCEPT !.i = @ + batchSize]
    /\ UNCHANGED <<customers, orders, segments, customerSegment, creating, response, beNow,
                   ordering, campaigns, delivering, evVars, feVars, cgVars>>

\* POST /api/campaigns: one turn of the loop over the logs (createMany).
CampaignLogBatch ==
    /\ campaigning.pc = "logs"
    /\ campaigning.i < Len(campaigning.communicationLogs)
    /\ LET batch == Slice(campaigning.communicationLogs, campaigning.i, campaigning.i + batchSize)
       IN  communicationLogs' = communicationLogs \o
                [k \in 1..Len(batch) |->
                    CommunicationLog(Len(communicationLogs) + k, campaigning.campaignId,
                                     batch[k], "PENDING", JNull)]
    /\ campaigning' = [campaigning EXCEPT !.i = @ + batchSize]
    /\ UNCHANGED <<customers, orders, segments, customerSegment, creating, response, beNow,
                   ordering, campaigns, delivering, evVars, feVars, cgVars>>

\* POST /api/campaigns: the loop is over, redis.xadd and res.status(201).
CampaignRespond ==
    /\ campaigning.pc = "logs"
    /\ campaigning.i >= Len(campaigning.communicationLogs)
    /\ response' = Response("campaign", 201, campaigning.campaignId,
                            Len(campaigning.communicationLogs), <<>>)
    /\ campaigning' = NoCampaignRequest
    /\ UNCHANGED <<customers, orders, segments, customerSegment, creating, beNow,
                   ordering, campaigns, communicationLogs, delivering,
                   evVars, feVars, cgVars>>

\* GET /api/segments: the segments the requester created, newest first, each
\* with the count of its customers.
ListSegments(user) ==
    /\ LET own == {segments[i].id : i \in {j \in 1..Len(segments) : segments[j].createdById = user}}
           asc == Ascending(own)
       IN  response' = Response("list", 200, 0, Cardinality(own),
                                [k \in 1..Len(asc) |-> asc[Len(asc) + 1 - k]])
    /\ UNCHANGED <<customers, orders, segments, customerSegment, creating, beNow,
                   evVars, feVars, cmVars, cgVars>>

\* GET /api/segments/:id sent by a user: the handler never reads req.user.
GetSegmentAs(user, id) == GetSegment(id)

\* Three customers, the first and the third with one order of 600.
InitCampaign ==
    /\ customers = << Customer(1, EmailOf(1), 600, 1, JDate(StartDay)),
                      Customer(2, EmailOf(2), 0, 0, JNull),
                      Customer(3, EmailOf(3), 600, 1, JDate(StartDay)) >>
    /\ orders = << [customerId |-> 1, amount |-> 600], [customerId |-> 3, amount |-> 600] >>
    /\ segments = <<>>
    /\ customerSegment = {}
    /\ creating = NoRequest
    /\ response = NoResponse
    /\ beNow = StartDay

CampaignSegmentRequests ==
    /\ Len(segments) < MaxSegments
    /\ \E user \in Users :
            CreateStart(user, JStr(<<"V">>), JUndef,
                        RulesObject(Leaf("totalSpend", "gt", JNum(500))))

\* Request bodies: with and without a name, for no UUID, for each stored
\* segment and for the id not yet given, scheduled or not.
CampaignBodies ==
    {CampaignBody(name, segmentId, JStr(<<"m">>), scheduledFor) :
        name \in {JUndef, JStr(<<"V">>)}, segmentId \in 0..(Len(segments) + 1),
        scheduledFor \in BOOLEAN}

CampaignRequests ==
    /\ Len(campaigns) < MaxCampaigns
    /\ \E user \in Users : \E b \in CampaignBodies : CampaignStart(user, b)

ListRequests == \E user \in Users : ListSegments(user)

GetAsRequests == \E user \in Users : \E id \in 1..(Len(segments) + 1) : GetSegmentAs(user, id)

NextCampaign ==
    \/ CampaignSegmentRequests
    \/ CreateEvaluate
    \/ CreateInsertBatch
    \/ CreateRespond
    \/ CampaignRequests
    \/ CampaignCreate
    \/ CampaignLogBatch
    \/ CampaignRespond
    \/ ListRequests
    \/ GetAsRequests

(***************************************************************************)
(* SpecDelivery: the delivery receipt routes over the logs of a campaign.  *)
(***************************************************************************)
\* A receipt; communicationId 0 stands for a value that is no UUID.
Update(communicationId, status) == [communicationId |-> communicationId, status |-> status]

\* The validators of a receipt.
UpdateValid(u) == u.communicationId # 0 /\ u.status \in {"SENT", "FAILED"}

\* UpdateLog that sets sentAt on SENT and leaves it alone otherwise.
UpdateLog_KeepingSentAt(table, u, now) ==
    [k \in 1..Len(table) |->
        IF table[k].id = u.communicationId
        THEN [table[k] EXCEPT !.status = u.status,
                              !.sentAt = IF u.status = "SENT" THEN JDate(now) ELSE @]
        ELSE table[k]]

\* prisma.communicationLog.update({where: {id}, data: {status, sentAt}}) on a
\* log that exists.
UpdateLog(table, u, now) ==
    [k \in 1..Len(table) |->
        IF table[k].id = u.communicationId
        THEN [table[k] EXCEPT !.status = u.status,
                              !.sentAt = IF u.status = "SENT" THEN JDate(now) ELSE JNull]
        ELSE table[k]]

LogIds == {communicationLogs[k].id : k \in 1..Len(communicationLogs)}

\* POST /api/delivery/receipt
DeliveryReceipt(u) ==
    /\ IF ~UpdateValid(u)
       THEN /\ response' = Response("receipt", 400, 0, 0, <<>>)
            /\ UNCHANGED communicationLogs
       ELSE IF u.communicationId \notin LogIds
       THEN /\ response' = Response("receipt", 500, 0, 0, <<>>)
            /\ UNCHANGED communicationLogs
       ELSE /\ communicationLogs' = UpdateLog(communicationLogs, u, beNow)
            /\ response' = Response("receipt", 200, u.communicationId, 0, <<>>)
    /\ UNCHANGED <<customers, orders, segments, customerSegment, creating, beNow,
                   ordering, campaigns, campaigning, delivering, evVars, feVars, cgVars>>

\* POST /api/delivery/batch up to Promise.all: validation, then the updates of
\* the batch are all under way.
DeliveryBatchStart(updates) ==
    /\ delivering.pc = "idle"
    /\ IF \E k \in 1..Len(updates) : ~UpdateValid(updates[k])
       THEN /\ response' = Response("batch", 400, 0, 0, <<>>)
            /\ UNCHANGED delivering
       ELSE /\ delivering' = [pc |-> "run", updates |-> Slice(updates, 0, batchSize),
                              failed |-> FALSE]
            /\ UNCHANGED response
    /\ UNCHANGED <<customers, orders, segments, customerSegment, creating, beNow,
                   ordering, campaigns, communicationLogs, campaigning,
                   evVars, feVars, cgVars>>

\* One of the updates under way is run by the database, in any order; one for
\* a log that does not exist rejects.
DeliveryBatchStep(k) ==
    /\ delivering.pc \in {"run", "answered"}
    /\ k \in 1..Len(delivering.updates)
    /\ IF delivering.updates[k].communicationId \notin LogIds
       THEN /\ delivering' = [delivering EXCEPT !.updates = RemoveAt(@, k), !.failed = TRUE]
            /\ UNCHANGED communicationLogs
       ELSE /\ communicationLogs' = UpdateLog(communicationLogs, delivering.updates[k], beNow)
            /\ delivering' = [delivering EXCEPT !.updates = RemoveAt(@, k)]
    /\ UNCHANGED <<customers, orders, segments, customerSegment, creating, response, beNow,
                   ordering, campaigns, campaigning, evVars, feVars, cgVars>>

\* Promise.all settles: 500 as soon as an update rejected, the results once
\* all are done.
DeliveryBatchRespond ==
    /\ delivering.pc = "run"
    /\ delivering.failed \/ delivering.updates = <<>>
    /\ response' = Response("batch", IF delivering.failed THEN 500 ELSE 200, 0, 0, <<>>)
    /\ delivering' = [delivering EXCEPT !.pc = "answered"]
    /\ UNCHANGED <<customers, orders, segments, customerSegment, creating, beNow,
                   ordering, campaigns, communicationLogs, campaigning,
                   evVars, feVars, cgVars>>

\* The request is answered and none of its updates is under way any more.
DeliveryBatchEnd ==
    /\ delivering.pc = "answered"
    /\ delivering.updates = <<>>
    /\ delivering' = NoBatch
    /\ UNCHANGED <<customers, orders, segments, customerSegment, creating, response, beNow,
                   ordering, campaigns, communicationLogs, campaigning,
                   evVars, feVars, cgVars>>

\* Receipts for the two logs, for a log that does not exist, and ones the
\* validators refuse.
UpdateInputs ==
    {Update(id, status) : id \in 1..3, status \in {"SENT", "FAILED"}}
        \cup {Update(0, "SENT"), Update(1, "PENDING")}

BatchInputs ==
    {<<u>> : u \in UpdateInputs} \cup
    {<<u, v>> : u \in {Update(1, "SENT"), Update(1, "FAILED"), Update(3, "SENT")},
                v \in {Update(1, "FAILED"), Update(2, "SENT"), Update(1, "PENDING")}}

\* A campaign of user u1 on a segment with customers 1 and 3 was created: two
\* PENDING logs.
InitDelivery ==
    /\ customers = << Customer(1, EmailOf(1), 600, 1, JDate(StartDay)),
                      Customer(2, EmailOf(2), 0, 0, JNull),
                      Customer(3, EmailOf(3), 600, 1, JDate(StartDay)) >>
    /\ orders = << [customerId |-> 1, amount |-> 600], [customerId |-> 3, amount |-> 600] >>
    /\ segments = << Segment(1, JStr(<<"V">>), JUndef, Leaf("totalSpend", "gt", JNum(500)), "u1") >>
    /\ customerSegment = {<<1, 1>>, <<3, 1>>}
    /\ creating = NoRequest
    /\ response = Response("campaign", 201, 1, 2, <<>>)
    /\ beNow = StartDay
    /\ ordering = <<>>
    /\ campaigns = << Campaign(1, 1, "u1", "DRAFT") >>
    /\ communicationLogs = << CommunicationLog(1, 1, 1, "PENDING", JNull),
                              CommunicationLog(2, 1, 3, "PENDING", JNull) >>
    /\ campaigning = NoCampaignRequest
    /\ delivering = NoBatch

ReceiptRequests == \E u \in UpdateInputs : DeliveryReceipt(u)

BatchRequests == \E updates \in BatchInputs : DeliveryBatchStart(updates)

BatchSteps == \E k \in 1..Len(delivering.updates) : DeliveryBatchStep(k)

NextDelivery ==
    \/ ReceiptRequests
    \/ BatchRequests
    \/ BatchSteps
    \/ DeliveryBatchRespond
    \/ DeliveryBatchEnd

(***************************************************************************)
(* SpecCampaignsPage: the campaigns page of the frontend over localStorage *)
(* "campaigns".  The status filter only hides cards; with "all" every      *)
(* card and its buttons are shown.                                         *)
(***************************************************************************)
MaxCampaignIds == 2

FECampaign(id, name, description, deliveryStatus, status, metrics) ==
    [id |-> id, name |-> name, description |-> description,
     deliveryStatus |-> deliveryStatus, status |-> status, metrics |-> metrics]

\* What simulateDeliveryStatus may return.
DeliveryStatuses == {"SENT", "NOT RECEIVED"}

\* Draws of simulateMetrics: the least and the greatest of each count.
MetricsDraws ==
    { [sent |-> 0, opened |-> 0, clicked |-> 0],
      [sent |-> 99, opened |-> 49, clicked |-> 19] }

\* The items of the status select of the form.
StatusItems == {"draft", "active", "paused", "completed"}

\* The status buttons of a card: the statuses handleStatusChange is called
\* with for a campaign of the given status.
StatusButtons(status) ==
    CASE status = "draft" -> {"active"}
      [] status = "active" -> {"paused", "completed"}
      [] status = "paused" -> {"active"}
      [] OTHER -> {}

\* The campaigns page is mounted, with nothing stored.
InitCampaignsPage ==
    /\ lsCustomers = <<>>
    /\ lsSegments = <<>>
    /\ fePage = "campaigns"
    /\ cpCustomers = <<>>
    /\ spSegments = <<>>
    /\ spCustomers = <<>>
    /\ spName = ""
    /\ spDescription = ""
    /\ spRules = <<>>
    /\ spEditingId = 0
    /\ spIsCreating = FALSE
    /\ feNow = 1
    /\ lsCampaigns = <<>>
    /\ cgCampaigns = <<>>
    /\ cgName = ""
    /\ cgDescription = ""
    /\ cgStatus = "draft"

\* The page is left and opened again: CampaignsPage mounts with a fresh form
\* and its effect loads the stored campaigns (each has its metrics) and
\* stores them back.
OpenCampaignsPage ==
    /\ fePage = "campaigns"
    /\ cgCampaigns' = lsCampaigns
    /\ lsCampaigns' = lsCampaigns
    /\ cgName' = "" /\ cgDescription' = "" /\ cgStatus' = "draft"
    /\ UNCHANGED <<feVars, evVars, beVars, cmVars>>

cgSetName(v) ==
    /\ fePage = "campaigns"
    /\ cgName # v
    /\ cgName' = v
    /\ UNCHANGED <<lsCampaigns, cgCampaigns, cgDescription, cgStatus,
                   feVars, evVars, beVars, cmVars>>

cgSetDescription(v) ==
    /\ fePage = "campaigns"
    /\ cgDescription # v
    /\ cgDescription' = v
    /\ UNCHANGED <<lsCampaigns, cgCampaigns, cgName, cgStatus,
                   feVars, evVars, beVars, cmVars>>

cgSetStatus(v) ==
    /\ fePage = "campaigns"
    /\ cgStatus # v
    /\ cgStatus' = v
    /\ UNCHANGED <<lsCampaigns, cgCampaigns, cgName, cgDescription,
                   feVars, evVars, beVars, cmVars>>

\* CampaignsPage.handleCreateCampaign
handleCreateCampaign(deliveryStatus, metrics) ==
    /\ fePage = "campaigns"
    /\ IF cgName = "" \/ cgDescription = ""
       THEN UNCHANGED <<lsCampaigns, cgCampaigns, cgName, cgDescription, cgStatus, feNow>>
       ELSE LET newCampaign == FECampaign(feNow, cgName, cgDescription, deliveryStatus,
                                          cgStatus, metrics)
                updated == Append(cgCampaigns, newCampaign)
            IN  /\ cgCampaigns' = updated
                /\ lsCampaigns' = updated
                /\ cgName' = "" /\ cgDescription' = "" /\ cgStatus' = "draft"
                /\ feNow' = feNow + 1
    /\ UNCHANGED <<lsVars, fePage, cpCustomers, spVars, evVars, beVars, cmVars>>

\* handleStatusChange giving the new status to every campaign.
handleStatusChange_EveryCampaign(id, newStatus) ==
    /\ fePage = "campaigns"
    /\ LET updated == [i \in 1..Len(cgCampaigns) |-> [cgCampaigns[i] EXCEPT !.status = newStatus]]
       IN  /\ cgCampaigns' = updated
           /\ lsCampaigns' = updated
    /\ UNCHANGED <<cgName, cgDescription, cgStatus, feVars, evVars, beVars, cmVars>>

\* CampaignsPage.handleStatusChange
handleStatusChange(id, newStatus) ==
    /\ fePage = "campaigns"
    /\ LET updated == [i \in 1..Len(cgCampaigns) |->
                        IF cgCampaigns[i].id = id
                        THEN [cgCampaigns[i] EXCEPT !.status = newStatus]
                        ELSE cgCampaigns[i]]
       IN  /\ cgCampaigns' = updated
           /\ lsCampaigns' = updated
    /\ UNCHANGED <<cgName, cgDescription, cgStatus, feVars, evVars, beVars, cmVars>>

\* A click on one of the status buttons of a card.
StatusClicks ==
    \E i \in 1..Len(cgCampaigns) : \E newStatus \in StatusButtons(cgCampaigns[i].status) :
        handleStatusChange(cgCampaigns[i].id, newStatus)

CreateCampaignClicks ==
    /\ feNow <= MaxCampaignIds
    /\ \E deliveryStatus \in DeliveryStatuses : \E metrics \in MetricsDraws :
            handleCreateCampaign(deliveryStatus, metrics)

NextCampaignsPage ==
    \/ OpenCampaignsPage
    \/ \E v \in {"", "Sale"} : cgSetName(v)
    \/ \E v \in {"", "spring"} : cgSetDescription(v)
    \/ \E v \in StatusItems : cgSetStatus(v)
    \/ CreateCampaignClicks
    \/ StatusClicks

vars == <<evVars, beVars, feVars, cmVars, cgVars>>

InitSpecEval == InitEval /\ BackendIdle /\ FrontendIdle /\ CampaignIdle /\ CampaignsPageIdle

InitSpec == InitBackend /\ EvalIdle /\ FrontendIdle /\ CampaignIdle /\ CampaignsPageIdle

InitSpecFE == InitFrontend /\ EvalIdle /\ BackendIdle /\ CampaignIdle /\ CampaignsPageIdle

SpecEval == InitSpecEval /\ [][NextEval]_vars

InitSpecClock == InitClock /\ BackendIdle /\ FrontendIdle /\ CampaignIdle /\ CampaignsPageIdle

SpecClock == InitSpecClock /\ [][NextClock]_vars

Spec == InitSpec /\ [][NextBackend]_vars

SpecPreview == InitSpec /\ [][NextPreview]_vars

InitSpecBatch == InitBatch /\ EvalIdle /\ FrontendIdle /\ CampaignIdle /\ CampaignsPageIdle

SpecBatch == InitSpecBatch /\ [][NextBatch]_vars

SpecFE == InitSpecFE /\ [][NextFrontend]_vars

InitSpecOrders == InitBackend /\ EvalIdle /\ FrontendIdle /\ CampaignIdle /\ CampaignsPageIdle

SpecOrders == InitSpecOrders /\ [][NextOrders]_vars

InitSpecCampaign == InitCampaign /\ EvalIdle /\ FrontendIdle /\ CampaignIdle /\ CampaignsPageIdle

SpecCampaign == InitSpecCampaign /\ [][NextCampaign]_vars

InitSpecDelivery == InitDelivery /\ EvalIdle /\ FrontendIdle /\ CampaignsPageIdle

SpecDelivery == InitSpecDelivery /\ [][NextDelivery]_vars

InitSpecCampaignsPage == InitCampaignsPage /\ EvalIdle /\ BackendIdle /\ CampaignIdle

SpecCampaignsPage == InitSpecCampaignsPage /\ [][NextCampaignsPage]_vars

(***************************************************************************)
(* Reference meaning of rules, stated on customers directly.               *)
(***************************************************************************)
Range(f) == {f[i] : i \in DOMAIN f}

\* The number a well-formed numeric value stands for.
NumberOf(v) == IF v.t = "num" THEN v.n ELSE DigitsToNat(v.s)

\* Whether customer c satisfies the well-formed leaf condition cond at time now.
Satisfies(c, cond, now) ==
    LET x == IF cond.field = "totalSpend" THEN c.totalSpend ELSE c.visitCount
        y == NumberOf(cond.value)
        numeric == (CASE cond.operator = "gt" -> x > y
                      [] cond.operator = "gte" -> x >= y
                      [] cond.operator = "lt" -> x < y
                      [] cond.operator = "lte" -> x <= y
                      [] cond.operator = "eq" -> x = y)
        string == (CASE cond.operator = "contains" -> IsInfix(cond.value.s, c.email)
                     [] cond.operator = "startsWith" -> IsPrefix(cond.value.s, c.email)
                     [] cond.operator = "endsWith" -> IsSuffix(cond.value.s, c.email)
                     [] cond.operator = "equals" -> cond.value.s = c.email)
        date == /\ c.lastVisit.t = "date"
                /\ (CASE cond.operator = "before" -> c.lastVisit.n < y
                      [] cond.operator = "after" -> c.lastVisit.n > y
                      [] cond.operator = "daysAgo" -> c.lastVisit.n < now - y)
    IN  CASE cond.field \in {"totalSpend", "visitCount"} -> numeric
          [] cond.field = "email" -> string
          [] cond.field = "lastVisit" -> date

\* Whether customer c satisfies a rule tree of well-formed leaves.
RECURSIVE SatisfiesTree(_, _, _)
SatisfiesTree(c, node, now) ==
    CASE node.type = "AND" ->
            \A i \in 1..Len(node.conditions) : SatisfiesTree(c, node.conditions[i], now)
      [] node.type = "OR" ->
            \E i \in 1..Len(node.conditions) : SatisfiesTree(c, node.conditions[i], now)
      [] OTHER -> Satisfies(c, node, now)

IsTree(node) == node.type \in {"AND", "OR"}

\* Every leaf of the rule, at any depth, is well formed.
RECURSIVE AllLeavesGood(_)
AllLeavesGood(node) ==
    IF IsTree(node)
    THEN \A i \in 1..Len(node.conditions) : AllLeavesGood(node.conditions[i])
    ELSE node \in GoodLeaves

FlatRule(node) == IsTree(node) /\ \A i \in 1..Len(node.conditions) : ~IsTree(node.conditions[i])

HasSubTree(node) == IsTree(node) /\ \E i \in 1..Len(node.conditions) : IsTree(node.conditions[i])

EvCalled == evResult # Pending

EvIdSet == Range(evResult.ids)

EvTableIds == {evCustomers[i].id : i \in 1..Len(evCustomers)}

EvMatching(rule) == {evCustomers[i].id : i \in {j \in 1..Len(evCustomers) : SatisfiesTree(evCustomers[j], rule, evNow)}}

\* C1: an AND rule of well-formed leaf conditions returns exactly the ids of
\* the customers that satisfy every condition, each id once; for the customers
\* (1200,3), (50,1), (800,5) and AND[totalSpend gt 500, visitCount gte 3] the
\* result is customers 1 and 3.
C1_AndIsIntersection ==
    /\ (EvCalled /\ evRule.type = "AND" /\ FlatRule(evRule) /\ AllLeavesGood(evRule))
          => /\ evResult.ok
             /\ EvIdSet = EvMatching(evRule)
             /\ Len(evResult.ids) = Cardinality(EvIdSet)
    /\ (EvCalled /\ evRule = ExampleRule /\ EvTableIds = {1, 2, 3})
          => evResult.ok /\ EvIdSet = {1, 3}

C1_Witness ==
    /\ EvCalled /\ evRule = ExampleRule /\ EvTableIds = {1, 2, 3}
    /\ evResult.ids = <<1, 3>>

\* C2: an OR rule of well-formed leaf conditions returns exactly the ids of
\* the customers that satisfy at least one condition, each id once.
C2_OrIsUnion ==
    (EvCalled /\ evRule.type = "OR" /\ FlatRule(evRule) /\ AllLeavesGood(evRule))
        => /\ evResult.ok
           /\ EvIdSet = EvMatching(evRule)
           /\ Len(evResult.ids) = Cardinality(EvIdSet)

C2_Witness ==
    /\ EvCalled /\ evResult.ok
    /\ evRule = Tree("OR", <<Leaf("totalSpend", "gt", JNum(500)), Leaf("visitCount", "eq", JNum(1))>>)
    /\ EvTableIds = {1, 2, 3, 4}
    /\ evResult.ids = <<1, 2, 3>>

\* C3: every id an evaluation returns is the id of a customer of the table it
\* was evaluated against.
C3_NoSpuriousIds ==
    (EvCalled /\ evResult.ok) => EvIdSet \subseteq EvTableIds

C3_Witness ==
    /\ EvCalled /\ evResult.ok
    /\ EvIdSet # {} /\ EvIdSet # EvTableIds
    /\ 1 \notin EvTableIds

Matching(rule) ==
    {customers[i].id : i \in {j \in 1..Len(customers) : SatisfiesTree(customers[j], rule, beNow)}}

GoodRule(rule) == ~HasSubTree(rule) /\ AllLeavesGood(rule)

\* C5: a segment create that answers 201 leaves the segment persisted with
\* exactly the evaluated ids as its members and returns their number as
\* customerCount; the evaluated ids are the customers matching the submitted
\* rule when it was evaluated.
C5_CreatePersistsEvaluation ==
    [][ /\ (creating.pc = "evaluate" /\ creating'.pc = "insert")
            => /\ GoodRule(creating.segment.rules)
               /\ Range(creating'.matchingCustomers) = Matching(creating.segment.rules)
        /\ (creating.pc = "insert" /\ creating'.pc = "idle")
            => /\ response'.op = "create" /\ response'.status = 201
               /\ response'.id = creating.segment.id
               /\ creating.segment \in Range(segments')
               /\ MembersIn(customerSegment', creating.segment.id) = Range(creating.matchingCustomers)
               /\ response'.customerCount = Cardinality(Range(creating.matchingCustomers))
      ]_vars

C5_Witness ==
    /\ response.op = "create" /\ response.status = 201
    /\ response.customerCount = 1
    /\ Len(customers) = 2
    /\ Members(response.id) = {2}

\* The create requests C6 says are refused: no name, no description, no rule,
\* or a rule with zero conditions.
C6Refused(name, description, rules) ==
    \/ name.t = "undefined"
    \/ description.t = "undefined"
    \/ ~rules.isObject
    \/ (IsTree(rules.rule) /\ rules.rule.conditions = <<>>)

\* C6 as claimed: a segment create without a name, a description or a rule,
\* or with a rule of zero conditions, is answered with a validation error and
\* persists no segment.
C6_CreateRejected ==
    [][ \A user \in Users, name \in NameInputs, description \in DescriptionInputs,
           rules \in RulesInputs :
            (CreateStart(user, name, description, rules) /\ C6Refused(name, description, rules))
                => (response'.op = "create" /\ response'.status = 400 /\ segments' = segments)
      ]_vars

\* C8: a preview answers with the number of customers matching the rule and a
\* sample of min(5, count) ids, all of matching customers.
C8_PreviewCountAndSample ==
    [][ \A rules \in RulesInputs :
            (PostPreview(rules) /\ rules.isObject /\ GoodRule(rules.rule))
                => /\ response'.op = "preview" /\ response'.status = 200
                   /\ response'.customerCount = Cardinality(Matching(rules.rule))
                   /\ Len(response'.sampleCustomers) =
                        (IF response'.customerCount < 5 THEN response'.customerCount ELSE 5)
                   /\ Range(response'.sampleCustomers) \subseteq Matching(rules.rule)
                   /\ Cardinality(Range(response'.sampleCustomers)) = Len(response'.sampleCustomers)
      ]_vars

C8_Witness ==
    /\ response.op = "preview" /\ response.status = 200
    /\ response.customerCount = 6
    /\ Len(response.sampleCustomers) = 5

\* C9: a preview request changes no table: customers, orders, segments and
\* segment membership are what they were, as is the request in progress.
C9_PreviewChangesNothing ==
    [][ \A rules \in RulesInputs :
            PostPreview(rules)
                => UNCHANGED <<customers, orders, segments, customerSegment, creating>>
      ]_vars

C9_Witness ==
    /\ response.op = "preview" /\ response.status = 200 /\ response.customerCount = 1
    /\ segments # <<>>
    /\ customerSegment # {}
    /\ orders # <<>>

(***************************************************************************)
(* Frontend claims, checked under SpecFE.                                  *)
(***************************************************************************)
\* The ids of the stored customers that pass every rule of the list.
FreshIds(rules) ==
    {lsCustomers[i].id : i \in {j \in 1..Len(lsCustomers) :
        \A k \in 1..Len(rules) : RulePasses(lsCustomers[j], rules[k])}}

FormValid == spName # "" /\ spDescription # "" /\ Len(spRules) > 0

EditsExisting == spEditingId # 0 /\ \E i \in 1..Len(lsSegments) : lsSegments[i].id = spEditingId

\* C7: saving an edit of an existing segment stores, under the same id and at
\* the same place, the ids a fresh evaluation of the submitted rules returns
\* and their number; an id matched before and not returned now is gone; every
\* other segment is left as it was.
C7_UpdateReplaces ==
    [][ (handleCreateSegment /\ FormValid /\ EditsExisting) =>
            /\ Len(lsSegments') = Len(lsSegments)
            /\ \A i \in 1..Len(lsSegments) :
                IF lsSegments[i].id = spEditingId
                THEN /\ lsSegments'[i].id = spEditingId
                     /\ lsSegments'[i].rules = spRules
                     /\ Range(lsSegments'[i].matchedCustomerIds) = FreshIds(spRules)
                     /\ Len(lsSegments'[i].matchedCustomerIds) = Cardinality(FreshIds(spRules))
                     /\ lsSegments'[i].customerCount = Cardinality(FreshIds(spRules))
                     /\ \A old \in Range(lsSegments[i].matchedCustomerIds) :
                            old \notin FreshIds(spRules)
                                => old \notin Range(lsSegments'[i].matchedCustomerIds)
                ELSE lsSegments'[i] = lsSegments[i]
      ]_vars

\* Two segments with the rule "totalPurchases < 1" over a customer older than
\* both: the second still holds the customer, the first no longer does, so the
\* first was saved again after the customer's purchase and lost the id.
C7_Witness ==
    /\ Len(lsSegments) = 2 /\ Len(lsCustomers) = 1
    /\ lsCustomers[1].id < lsSegments[1].id
    /\ lsCustomers[1].totalPurchases = 1
    /\ lsSegments[1].rules = << <<"totalPurchases", "<", "1">> >>
    /\ lsSegments[2].rules = << <<"totalPurchases", "<", "1">> >>
    /\ lsSegments[1].matchedCustomerIds = <<>>
    /\ lsSegments[1].customerCount = 0
    /\ lsSegments[2].matchedCustomerIds = <<lsCustomers[1].id>>

\* The backend side of C10: creating a customer or recording an order writes
\* no membership row and no segment.
C10_BackendMembershipFrozen ==
    [][ (CustomerRequests \/ OrderRequests) => UNCHANGED <<segments, customerSegment>> ]_vars

MatchedById(segs) == {<<segs[i].id, segs[i].matchedCustomerIds>> : i \in 1..Len(segs)}

CustomerMutation ==
    \/ handleAddCustomer
    \/ \E i \in 1..Len(cpCustomers) : handleMakePurchase(cpCustomers[i].id)

\* C10: adding a customer or recording a purchase leaves the matched ids of
\* every stored segment as they were (the customer count may change); the
\* matched ids of a segment that stays stored change only in
\* handleCreateSegment.
C10_MatchedIdsFrozen ==
    [][ /\ CustomerMutation => MatchedById(lsSegments') = MatchedById(lsSegments)
        /\ ~(MatchedById(lsSegments') \subseteq MatchedById(lsSegments)) => handleCreateSegment
      ]_vars

\* A customer older than a stored segment now passes the segment's rule, and
\* the segment, whose count the purchase has overwritten, does not hold it.
C10_Witness ==
    /\ fePage = "customers"
    /\ \E i \in 1..Len(lsSegments) : \E j \in 1..Len(lsCustomers) :
        /\ lsCustomers[j].id < lsSegments[i].id
        /\ lsCustomers[j].totalPurchases = 1
        /\ lsSegments[i].rules = << <<"totalPurchases", ">", "0">> >>
        /\ lsCustomers[j].id \in FreshIds(lsSegments[i].rules)
        /\ lsSegments[i].matchedCustomerIds = <<>>

(***************************************************************************)
(* Claims on the condition builders, checked under SpecEval.               *)
(***************************************************************************)
\* The leaf a rule consists of: the rule itself, or the only condition of a
\* one-condition tree.
IsSingle(rule) == ~IsTree(rule) \/ (Len(rule.conditions) = 1 /\ ~IsTree(rule.conditions[1]))

LeafOf(rule) == IF IsTree(rule) THEN rule.conditions[1] ELSE rule

\* The conditions C11 is checked on: one per operator with a boundary.
BoundaryLeaves ==
    { Leaf("totalSpend", "gt", JNum(500)),
      Leaf("visitCount", "gte", JNum(3)),
      Leaf("totalSpend", "lte", JStr(<<"8", "0", "0">>)),
      Leaf("visitCount", "lt", JStr(<<"3">>)),
      Leaf("lastVisit", "before", JStr(<<"1", "0">>)),
      Leaf("lastVisit", "after", JStr(<<"1", "0">>)),
      Leaf("lastVisit", "between", JStr(<<"1", "0", ",", "2", "0">>)) }

\* The numbers the value of a boundary leaf names: one, or the two endpoints.
Endpoints(leaf) ==
    IF leaf.operator = "between"
    THEN {DigitsToNat(SplitComma(leaf.value.s)[k]) : k \in 1..2}
    ELSE {NumberOf(leaf.value)}

\* The customer's value of the leaf's field is exactly a number the leaf names.
AtBoundary(c, leaf) ==
    CASE leaf.field = "totalSpend" -> c.totalSpend \in Endpoints(leaf)
      [] leaf.field = "visitCount" -> c.visitCount \in Endpoints(leaf)
      [] leaf.field = "lastVisit" -> c.lastVisit.t = "date" /\ c.lastVisit.n \in Endpoints(leaf)

\* C11: a customer whose field value equals the condition's value is matched
\* by gte, lte and between (at either endpoint) and is not matched by gt, lt,
\* before and after.
C11_BoundaryInclusion ==
    (EvCalled /\ IsSingle(evRule) /\ LeafOf(evRule) \in BoundaryLeaves)
        => /\ evResult.ok
           /\ \A i \in 1..Len(evCustomers) :
                AtBoundary(evCustomers[i], LeafOf(evRule))
                    => (evCustomers[i].id \in EvIdSet
                            <=> LeafOf(evRule).operator \in {"gte", "lte", "between"})

\* between "10,20" over customers last seen on days 20, 5 and 10: both
\* endpoint customers are returned.
C11_Witness ==
    /\ EvCalled
    /\ evRule = Leaf("lastVisit", "between", JStr(<<"1", "0", ",", "2", "0">>))
    /\ EvTableIds = {1, 2, 3}
    /\ evResult.ids = <<1, 3>>

\* The top-level conditions of a rule: the rule itself when it is bare.
TopConditions(rule) == IF IsTree(rule) THEN rule.conditions ELSE <<rule>>

RecognisedFields == {"totalSpend", "visitCount", "lastVisit", "email"}

UnknownFieldAt(rule, i) ==
    /\ i \in 1..Len(TopConditions(rule))
    /\ ~IsTree(TopConditions(rule)[i])
    /\ TopConditions(rule)[i].field \notin RecognisedFields

\* The backend side of C12: a rule with a condition on an unrecognised field
\* fails and returns no ids; the error is the unsupported-field one unless an
\* earlier condition of the list already threw.
C12_BackendUnknownFieldFails ==
    \A i \in 1..MaxConds + 1 :
        (EvCalled /\ UnknownFieldAt(evRule, i))
            => /\ ~evResult.ok
               /\ evResult.ids = <<>>
               /\ (\A j \in 1..(i - 1) : buildCondition(TopConditions(evRule)[j], evNow).ok)
                    => evResult.error = "Unsupported field"

\* The fields of the frontend's Customer records.
FECustomerFields == {"id", "name", "email", "phone", "totalPurchases"}

\* C12 as claimed, on the segments page: saving a segment with a rule on a
\* field customers do not have fails, and stores nothing.
C12_UnknownFieldFails ==
    [][ (handleCreateSegment /\ FormValid
            /\ \E k \in 1..Len(spRules) : spRules[k][1] \notin FECustomerFields)
                => lsSegments' = lsSegments
      ]_vars

\* A value parseFloat / parseInt cannot read a number from.
NonNumeric(v) == v.t # "num" /\ (v.t # "str" \/ v.s = <<>> \/ Head(v.s) \notin Digits)

NumericOperators == {"gt", "gte", "lt", "lte", "eq"}

NonNumericAt(rule, i) ==
    /\ i \in 1..Len(TopConditions(rule))
    /\ ~IsTree(TopConditions(rule)[i])
    /\ TopConditions(rule)[i].field \in {"totalSpend", "visitCount"}
    /\ TopConditions(rule)[i].operator \in NumericOperators
    /\ NonNumeric(TopConditions(rule)[i].value)

\* C13 as claimed: a numeric condition whose value is no number is not built
\* into a clause, the evaluation fails, and the failure does not come from a
\* customer query run with the clause.
C13_InvalidValueRejected ==
    \A i \in 1..MaxConds + 1 :
        (EvCalled /\ NonNumericAt(evRule, i))
            => /\ ~buildCondition(TopConditions(evRule)[i], evNow).ok
               /\ ~evResult.ok
               /\ evResult.error # "PrismaClientValidationError"

\* The operators each builder has a case for.
OperatorsOf(field) ==
    CASE field \in {"totalSpend", "visitCount"} -> NumericOperators
      [] field = "lastVisit" -> {"before", "after", "between", "daysAgo"}
      [] field = "email" -> {"contains", "startsWith", "endsWith", "equals"}

WrongOperatorAt(rule, i) ==
    /\ i \in 1..Len(TopConditions(rule))
    /\ ~IsTree(TopConditions(rule)[i])
    /\ TopConditions(rule)[i].field \in RecognisedFields
    /\ TopConditions(rule)[i].operator \notin OperatorsOf(TopConditions(rule)[i].field)

\* The backend side of C14: a condition whose operator its field's builder
\* has no case for makes the evaluation fail and return no ids; the error is
\* the unsupported-operator one unless an earlier condition already threw.
C14_BackendOperatorFails ==
    \A i \in 1..MaxConds + 1 :
        (EvCalled /\ WrongOperatorAt(evRule, i))
            => /\ ~evResult.ok
               /\ evResult.ids = <<>>
               /\ (\A j \in 1..(i - 1) : buildCondition(TopConditions(evRule)[j], evNow).ok)
                    => evResult.error = "Unsupported operator"

\* The operators getMatchedCustomers has a case for.
FEOperators == {">", "<", "=", "==", "!="}

\* C14 as claimed, on the segments page: saving a segment with a rule whose
\* operator the evaluator does not know fails, and stores nothing.
C14_UnsupportedOperatorFails ==
    [][ (handleCreateSegment /\ FormValid
            /\ \E k \in 1..Len(spRules) : spRules[k][2] \notin FEOperators)
                => lsSegments' = lsSegments
      ]_vars

\* A piece of text that is a date: a day number written in digits.
ParseableDate(piece) == piece # <<>> /\ \A k \in 1..Len(piece) : piece[k] \in Digits

\* The value holds exactly two dates separated by a comma.
TwoDates(v) ==
    /\ v.t = "str"
    /\ Len(SplitComma(v.s)) = 2
    /\ \A k \in 1..2 : ParseableDate(SplitComma(v.s)[k])

BadBetweenAt(rule, i) ==
    /\ i \in 1..Len(TopConditions(rule))
    /\ ~IsTree(TopConditions(rule)[i])
    /\ TopConditions(rule)[i].field = "lastVisit"
    /\ TopConditions(rule)[i].operator = "between"
    /\ ~TwoDates(TopConditions(rule)[i].value)

\* C15 as claimed: a between condition whose value does not hold exactly two
\* parseable dates makes the evaluation fail.
C15_BetweenNeedsTwoDates ==
    \A i \in 1..MaxConds + 1 :
        (EvCalled /\ BadBetweenAt(evRule, i)) => ~evResult.ok /\ evResult.ids = <<>>

SameOutcome(r1, r2) == r1.ok = r2.ok /\ Range(r1.ids) = Range(r2.ids)

\* The leaves C17 compares with the reference meaning: those of GoodLeaves and
\* the after condition.
C17Reference(leaf) ==
    leaf \in GoodLeaves \/ leaf = Leaf("lastVisit", "after", JStr(<<"1", "0">>))

\* C17: a bare condition returns exactly the customers satisfying it, and the
\* same as the one-condition AND tree and the one-condition OR tree of it.
C17_BareIsSingleTree ==
    (EvCalled /\ ~IsTree(evRule))
        => /\ SameOutcome(evResult, evaluateSegmentRules(Tree("AND", <<evRule>>), evCustomers, evNow))
           /\ SameOutcome(evResult, evaluateSegmentRules(Tree("OR", <<evRule>>), evCustomers, evNow))
           /\ C17Reference(evRule) => (evResult.ok /\ EvIdSet = EvMatching(evRule))

C17_Witness ==
    /\ EvCalled
    /\ evRule = Leaf("visitCount", "eq", JNum(1))
    /\ EvTableIds = {1, 2, 3}
    /\ evResult.ids = <<2>>

Reversed(seq) == [i \in 1..Len(seq) |-> seq[Len(seq) + 1 - i]]

\* The conditions of a tree with every subtree of the tree's own connective
\* replaced by that subtree's conditions, at any depth.
RECURSIVE Spliced(_, _)
Spliced(ty, cs) ==
    IF cs = <<>> THEN <<>>
    ELSE (IF Head(cs).type = ty THEN Spliced(ty, Head(cs).conditions) ELSE <<Head(cs)>>)
            \o Spliced(ty, Tail(cs))

Flattened(rule) == Tree(rule.type, Spliced(rule.type, rule.conditions))

\* The rule nests a subtree of its own connective.
NestsSameConnective(rule) ==
    IsTree(rule) /\ \E i \in 1..Len(rule.conditions) : rule.conditions[i].type = rule.type

C20_ReaderSeesNoneOrAll ==
    [][ \A id \in SegmentIds :
            (GetSegment(id) /\ creating.pc = "insert" /\ creating.segment.id = id)
                => response'.customerCount \in {0, Len(creating.matchingCustomers)} ]_vars

\* C21: each stored segment's customerCount is the size of its
\* matchedCustomerIds; no operation overwrites the count with a number
\* computed from a rule other than the segment's own.
C21_CountIsMatchedSize ==
    \A i \in 1..Len(lsSegments) :
        lsSegments[i].customerCount = Len(lsSegments[i].matchedCustomerIds)

(***************************************************************************)
(* Claims on validation before the scan, the clock and the frame.          *)
(***************************************************************************)
\* The i-th top-level condition of the rule is invalid: its field is not
\* recognised, its operator is not one of its field's, its numeric value is no
\* number, or its between value does not hold exactly two dates.
InvalidAt(rule, i) ==
    \/ UnknownFieldAt(rule, i)
    \/ WrongOperatorAt(rule, i)
    \/ NonNumericAt(rule, i)
    \/ BadBetweenAt(rule, i)

\* C22: every condition is validated before any customer is tested: a rule
\* with an invalid condition ends the evaluation with an error raised while
\* the conditions are built, so the customer query is never issued and no ids
\* are returned.
C22_InvalidNeverQueried ==
    (EvCalled /\ \E i \in 1..MaxConds + 1 : InvalidAt(evRule, i))
        => /\ ~evResult.ok
           /\ evResult.error # "PrismaClientValidationError"
           /\ evResult.ids = <<>>

\* The i-th condition the call built is a daysAgo condition.
DaysAgoAt(rule, i) ==
    /\ i \in 1..Len(ConditionsOf(rule))
    /\ ConditionsOf(rule)[i].field = "lastVisit"
    /\ ConditionsOf(rule)[i].operator = "daysAgo"

\* C23: within one call the clock is read once: two daysAgo conditions of the
\* rule with the same day count are built with the same cutoff, even when the
\* clock advances while the rule is being built.
C23_OneClockReading ==
    \A i \in 1..MaxConds, j \in 1..MaxConds :
        (EvCalled /\ DaysAgoAt(evRule, i) /\ DaysAgoAt(evRule, j)
            /\ ConditionsOf(evRule)[i].value = ConditionsOf(evRule)[j].value)
                => evWhere[i].filters = evWhere[j].filters

\* The part of C23 on the comparison: a customer is returned for a bare
\* daysAgo condition iff it has a last visit strictly earlier than the cutoff,
\* the reading of the clock less the day count.
C23_StrictlyBeforeCutoff ==
    (EvCalled /\ ~IsTree(evRule))
        => \E reading \in {evNow + t : t \in Ticks} :
                /\ evWhere[1].filters = <<Filter("lt", JDate(reading - evRule.value.n))>>
                /\ EvIdSet = {evCustomers[k].id : k \in
                                {m \in 1..Len(evCustomers) :
                                    /\ evCustomers[m].lastVisit # JNull
                                    /\ evCustomers[m].lastVisit.n < reading - evRule.value.n}}

\* A step of the segment routes: it stores a segment or members, moves the
\* create request on, or answers a preview or a create request.
SegmentStep ==
    \/ segments' # segments
    \/ customerSegment' # customerSegment
    \/ creating' # creating
    \/ response' # response /\ response'.op \in {"preview", "create"}

\* C24: preview, create and rule evaluation never modify a customer record:
\* in any interleaving with the customer and order routes, every step of the
\* segment routes leaves the customer table (the set of customers and each
\* one's fields) and the order table as they were.
C24_SegmentRoutesReadOnly ==
    [][ SegmentStep => customers' = customers /\ orders' = orders ]_vars

\* A segment was created and its member recorded over a customer who had
\* placed an order: the customer still has the spend and visit of that order.
C24_Witness ==
    /\ response.op = "create" /\ response.status = 201
    /\ Len(customers) = 1
    /\ customers[1].totalSpend = 600 /\ customers[1].visitCount = 1
    /\ Members(1) = {1}

(***************************************************************************)
(* Claims on failed creates, orders, campaigns, receipts and ownership.    *)
(***************************************************************************)
\* C25: when rule evaluation fails during a create request, the request ends
\* with an error and the segment record it created does not remain stored.
C25_FailedCreateLeavesNoSegment ==
    [][ (creating.pc = "evaluate" /\ creating'.pc = "idle"
            /\ response'.op = "create" /\ response'.status = 500)
                => creating.segment.id \notin {segments'[i].id : i \in 1..Len(segments')} ]_vars

\* The sum of the amounts of the stored orders of a customer, and their number.
RECURSIVE SpendOf(_, _)
SpendOf(id, n) ==
    IF n = 0 THEN 0
    ELSE SpendOf(id, n - 1) + (IF orders[n].customerId = id THEN orders[n].amount ELSE 0)

OrdersOf(id) == Cardinality({n \in 1..Len(orders) : orders[n].customerId = id})

LogsOf(table, campaignId) == {k \in 1..Len(table) : table[k].campaignId = campaignId}

LogsFor(table, campaignId, customerId) ==
    {k \in LogsOf(table, campaignId) : table[k].customerId = customerId}

\* The requester created the segment with this id.
Owns(user, segmentId) ==
    \E i \in 1..Len(segments) : segments[i].id = segmentId /\ segments[i].createdById = user

\* C27: a campaign request for a segment of the requester goes on with the
\* members the segment has when it is read, and when it is answered there is
\* exactly one PENDING log of the campaign for each of them, none for another
\* customer, and customerCount is the number of those logs; a request for a
\* segment that does not exist or is another user's is answered 404 and
\* creates no campaign and no log.
C27_OneLogPerMember ==
    [][ /\ \A user \in Users : \A b \in CampaignBodies :
            (CampaignStart(user, b) /\ CampaignValid(b))
                => IF Owns(user, b.segmentId)
                   THEN /\ campaigning'.pc = "create"
                        /\ Range(campaigning'.communicationLogs) = Members(b.segmentId)
                   ELSE /\ response'.status = 404
                        /\ campaigning'.pc = "idle"
                        /\ campaigns' = campaigns
                        /\ communicationLogs' = communicationLogs
        /\ CampaignRespond
            => /\ response'.status = 201
               /\ response'.customerCount
                    = Cardinality(LogsOf(communicationLogs, campaigning.campaignId))
               /\ \A i \in 1..Len(customers) :
                    Cardinality(LogsFor(communicationLogs, campaigning.campaignId, customers[i].id))
                        = IF customers[i].id \in Range(campaigning.communicationLogs) THEN 1 ELSE 0
               /\ \A k \in LogsOf(communicationLogs, campaigning.campaignId) :
                    communicationLogs[k].status = "PENDING"
               /\ Cardinality({n \in 1..Len(campaigns) :
                                campaigns[n].id = campaigning.campaignId}) = 1
      ]_vars

\* A campaign was created for a segment with customers 1 and 3: two logs, and
\* the answer counts two customers.
C27_Witness ==
    /\ response.op = "campaign" /\ response.status = 201 /\ response.customerCount = 2
    /\ Len(campaigns) = 1
    /\ {communicationLogs[k].customerId : k \in LogsOf(communicationLogs, 1)} = {1, 3}
    /\ Len(communicationLogs) = 2

\* Every log has sentAt set exactly when its status is SENT.
SentAtIffSent ==
    \A k \in 1..Len(communicationLogs) :
        (communicationLogs[k].sentAt # JNull) <=> (communicationLogs[k].status = "SENT")

\* The step applies the receipt u: as a single receipt, or as one of the
\* updates of the batch under way.
Applies(u) ==
    \/ DeliveryReceipt(u)
    \/ \E k \in 1..Len(delivering.updates) : delivering.updates[k] = u /\ DeliveryBatchStep(k)

\* C28: after any sequence of single and batch receipts every log has sentAt
\* set iff its status is SENT, and a FAILED receipt applied to a log that is
\* SENT leaves it FAILED with sentAt cleared.
C28_SentAtIffSent ==
    /\ []SentAtIffSent
    /\ [][ \A k \in 1..Len(communicationLogs) :
            (communicationLogs[k].status = "SENT"
                /\ Applies(Update(communicationLogs[k].id, "FAILED")))
                    => /\ communicationLogs'[k].status = "FAILED"
                       /\ communicationLogs'[k].sentAt = JNull ]_vars

\* The first log was SENT and then FAILED, through a batch holding both
\* receipts; the second is SENT.
C28_Witness ==
    /\ response.op = "batch" /\ response.status = 200
    /\ communicationLogs[1].status = "FAILED" /\ communicationLogs[1].sentAt = JNull
    /\ communicationLogs[2].status = "SENT" /\ communicationLogs[2].sentAt = JDate(StartDay)

\* C29: every segment a read operation returns to a user was created by that
\* user: the list holds only the requester's segments, and get-by-id answers
\* with a segment, its member count and its members only to its creator.
C29_ReadsOnlyOwnSegments ==
    [][ \A user \in Users :
            /\ ListSegments(user)
                => \A k \in 1..Len(response'.sampleCustomers) :
                        Owns(user, response'.sampleCustomers[k])
            /\ \A id \in SegmentIds :
                (GetSegmentAs(user, id) /\ response'.status = 200) => Owns(user, id) ]_vars

(***************************************************************************)
(* C30  In the campaigns page the status of an existing campaign changes   *)
(* only by draft -> active, active -> paused, active -> completed and      *)
(* paused -> active; a completed campaign keeps its status for ever; and   *)
(* handleStatusChange called with an id changes the campaign of that id    *)
(* only, and only its status.                                              *)
(***************************************************************************)
OfferedTransitions ==
    { <<"draft", "active">>, <<"active", "paused">>,
      <<"active", "completed">>, <<"paused", "active">> }

\* The campaign at position i is still at position i, with the same status
\* or one reached by an offered transition, and nothing else of it changed.
KeptOrOffered(before, after) ==
    /\ Len(after) >= Len(before)
    /\ \A i \in 1..Len(before) :
        /\ [after[i] EXCEPT !.status = before[i].status] = before[i]
        /\ \/ after[i].status = before[i].status
           \/ <<before[i].status, after[i].status>> \in OfferedTransitions
        /\ before[i].status = "completed" => after[i].status = "completed"

C30_OfferedTransitionsOnly ==
    [][ /\ KeptOrOffered(cgCampaigns, cgCampaigns')
        /\ KeptOrOffered(lsCampaigns, lsCampaigns')
        /\ \A id \in 1..(MaxCampaignIds + 1) : \A newStatus \in StatusItems :
            handleStatusChange(id, newStatus) =>
                \A i \in 1..Len(cgCampaigns) :
                    cgCampaigns[i].id # id =>
                        /\ cgCampaigns'[i] = cgCampaigns[i]
                        /\ lsCampaigns'[i] = lsCampaigns[i] ]_vars

\* A completed campaign is stored next to one that still has status buttons.
C30_Witness ==
    /\ Len(lsCampaigns) = 2
    /\ lsCampaigns = cgCampaigns
    /\ \E i, j \in 1..2 :
        /\ lsCampaigns[i].status = "completed"
        /\ lsCampaigns[j].status = "paused"
        /\ lsCampaigns[i].id # lsCampaigns[j].id

====
